---- MODULE Spec2Model ----
(***************************************************************************)
(* Cave survey ingestion of the CKKC expedition application (src/app.py):  *)
(* survey_submit (validation and dual-write persistence), admin edit of a  *)
(* stored survey header, admin login/logout, and the connection pool the   *)
(* handlers take their connections from; shot_to_cartesian.                *)
(*                                                                         *)
(* Text is a sequence of one-character strings.  A float is a record       *)
(* [k, v]: k = "num" with v the value in tenths, k = "nan", k = "inf" with *)
(* v the sign, k = "none" for Python's None.                               *)
(***************************************************************************)
EXTENDS Integers, Sequences, FiniteSets, TLC

VARIABLES db, req, nreq, admin_authenticated, used, cart, sight

vars == <<db, req, nreq, admin_authenticated, used, cart, sight>>

\* the calls of the functions checked on their own
calls == <<cart, sight>>

(***************************************************************************)
(* Bounds of the model and constants of the program.                       *)
(***************************************************************************)
\* how many requests (submissions and admin edits) one behaviour handles
MaxRequests == 3

\* len(station) > 20 is a violation (app.py 1177, 1180)
MaxStationLen == 20

\* validation_errors[:5] (app.py 1219)
MaxShownErrors == 5

\* pool.SimpleConnectionPool(1, 20, DATABASE_URL): maxconn (app.py 54)
MaxConn == 20

(***************************************************************************)
(* Text and numbers.                                                       *)
(***************************************************************************)
Digits == {"0", "1", "2", "3", "4", "5", "6", "7", "8", "9"}

DigitVal(c) ==
    CASE c = "0" -> 0 [] c = "1" -> 1 [] c = "2" -> 2 [] c = "3" -> 3
      [] c = "4" -> 4 [] c = "5" -> 5 [] c = "6" -> 6 [] c = "7" -> 7
      [] c = "8" -> 8 [] OTHER -> 9

IsSpace(c) == c = " "

RECURSIVE LStrip(_)
LStrip(s) ==
    IF s = <<>> THEN <<>>
    ELSE IF IsSpace(Head(s)) THEN LStrip(Tail(s)) ELSE s

RECURSIVE RStrip(_)
RStrip(s) ==
    IF s = <<>> THEN <<>>
    ELSE IF IsSpace(s[Len(s)]) THEN RStrip(SubSeq(s, 1, Len(s) - 1)) ELSE s

\* str.strip()
Strip(s) == RStrip(LStrip(s))

\* truth value of a str: non-empty
Truthy(s) == s # <<>>

None == [k |-> "none", v |-> 0]
NaN == [k |-> "nan", v |-> 0]
ValueError == [k |-> "err", v |-> 0]
Num(tenths) == [k |-> "num", v |-> tenths]
Inf(sign) == [k |-> "inf", v |-> sign]

AllDigits(s) == \A i \in 1..Len(s) : s[i] \in Digits

RECURSIVE DigitsValue(_)
DigitsValue(s) ==
    IF s = <<>> THEN 0 ELSE 10 * DigitsValue(SubSeq(s, 1, Len(s) - 1)) + DigitVal(s[Len(s)])

\* position of the first "." of s, or 0
DotPos(s) ==
    IF \E i \in 1..Len(s) : s[i] = "."
    THEN CHOOSE i \in 1..Len(s) : s[i] = "." /\ \A j \in 1..(i - 1) : s[j] # "."
    ELSE 0

\* the digits before and after the "." at position d (d = 0: no ".")
IntPart(s, d) == IF d = 0 THEN s ELSE SubSeq(s, 1, d - 1)
FracPart(s, d) == IF d = 0 THEN <<>> ELSE SubSeq(s, d + 1, Len(s))

\* the value, in tenths, of integer digits ip and fraction digits fp (digits
\* after the first decimal are below the model's resolution and dropped)
DecimalValue(ip, fp) ==
    IF AllDigits(ip) /\ AllDigits(fp) /\ Len(ip) + Len(fp) >= 1
    THEN Num(10 * DigitsValue(ip) + (IF fp = <<>> THEN 0 ELSE DigitVal(fp[1])))
    ELSE ValueError

DecimalAt(u, d) == DecimalValue(IntPart(u, d), FracPart(u, d))

\* an unsigned literal: "nan", "inf" or a decimal
ParseUnsigned(u) ==
    IF u = <<"n", "a", "n">> THEN NaN
    ELSE IF u = <<"i", "n", "f">> THEN Inf(1)
    ELSE DecimalAt(u, DotPos(u))

HasSign(t) == t # <<>> /\ Head(t) \in {"-", "+"}
HasMinus(t) == t # <<>> /\ Head(t) = "-"

Negate(x) == IF x.k \in {"num", "inf"} THEN [k |-> x.k, v |-> -x.v] ELSE x

ParseSigned(neg, x) == IF neg THEN Negate(x) ELSE x

ParseStripped(t) == ParseSigned(HasMinus(t), ParseUnsigned(IF HasSign(t) THEN Tail(t) ELSE t))

\* float(text): surrounding whitespace ignored, optional sign, a decimal
\* literal, "nan" or "inf"; anything else raises ValueError
ParseFloat(s) == ParseStripped(Strip(s))

\* x < c, x > c, x <= c, x >= c for a float x and an integer constant c:
\* every comparison with NaN is false
FLt(x, c) == (x.k = "num" /\ x.v < 10 * c) \/ (x.k = "inf" /\ x.v < 0)
FGt(x, c) == (x.k = "num" /\ x.v > 10 * c) \/ (x.k = "inf" /\ x.v > 0)
FLe(x, c) == (x.k = "num" /\ x.v <= 10 * c) \/ (x.k = "inf" /\ x.v < 0)
FGe(x, c) == (x.k = "num" /\ x.v >= 10 * c) \/ (x.k = "inf" /\ x.v > 0)

(***************************************************************************)
(* The submitted form (request.form).  Header fields are raw text; the     *)
(* shot table arrives as twelve parallel lists, which may differ in        *)
(* length.  Free-text header fields that no branch reads (region, times,   *)
(* objective, notes, ...) are stored as received and are left out.         *)
(***************************************************************************)
\* a flashed message: msg names the text, shot the 1-based row it is about
\* (0 for none), n the count a summary or success message carries
Msg(m) == [msg |-> m, shot |-> 0, n |-> 0]
ShotMsg(i, m) == [msg |-> m, shot |-> i, n |-> 0]
MoreMsg(c) == [msg |-> "more validation errors", shot |-> 0, n |-> c]

\* a JSON value of survey_shots_json
JNum(x) == [k |-> x.k, v |-> x.v, s |-> <<>>]
JStr(t) == [k |-> "str", v |-> 0, s |-> t]
JAbsent == [k |-> "absent", v |-> 0, s |-> <<>>]

\* "if x and x.strip(): float(x)" of the calibration readings; the value the
\* range test sees, None when the reading is not given
Reading(raw) == IF Truthy(raw) /\ Truthy(Strip(raw)) THEN ParseFloat(raw) ELSE None

\* the test on a given reading x, "" when it passes
RangeError(x, outside, invalid, range) ==
    IF x.k = "none" THEN ""
    ELSE IF x.k = "err" THEN invalid
    ELSE IF outside THEN range
    ELSE ""

\* compass frontsight: fs_val <= 180 or fs_val > 360
CompassFsOutside(x) == FLe(x, 180) \/ FGt(x, 360)

CompassFsCheck(x) ==
    RangeError(x, CompassFsOutside(x), "Invalid compass frontsight value.",
               "Compass frontsight must be > 180")

CompassFsError(raw) == CompassFsCheck(Reading(raw))

\* compass backsight: bs_val < 0 or bs_val >= 180
CompassBsOutside(x) == FLt(x, 0) \/ FGe(x, 180)

CompassBsCheck(x) ==
    RangeError(x, CompassBsOutside(x), "Invalid compass backsight value.",
               "Compass backsight must be < 180")

CompassBsError(raw) == CompassBsCheck(Reading(raw))

\* inclinometer frontsight / backsight: v < -90 or v > 90
InclinometerCheck(x, which) ==
    RangeError(x, FLt(x, -90) \/ FGt(x, 90), "Invalid inclinometer value " \o which,
               "Inclinometer must be between -90 and 90 " \o which)

InclinometerError(raw, which) == InclinometerCheck(Reading(raw), which)

\* "if not text: flash(message)"
Required(text, message) == IF Truthy(text) THEN "" ELSE message

\* HeaderChecks without the check of trip_leader, the one required name that
\* team_roles does not use
HeaderChecks_NoTripLeader(f) ==
    << Required(Strip(f.cave_name), "Cave name is required."),
       Required(Strip(f.survey_date), "Survey date is required."),
       Required(f.data_accuracy, "You must confirm the accuracy of the survey data."),
       Required(Strip(f.book_sketch_person), "Book/Sketch person is required."),
       Required(Strip(f.instrument_reader), "Instrument reader is required."),
       Required(Strip(f.tape_person), "Tape person is required."),
       Required(Strip(f.point_person), "Point person is required."),
       Required(Strip(f.compass_id), "Compass ID is required."),
       Required(Strip(f.inclinometer_id), "Inclinometer ID is required."),
       Required(f.crf_compass_course, "You must confirm the CRF Compass Course."),
       CompassFsError(f.compass_frontsight),
       CompassBsError(f.compass_backsight),
       InclinometerError(f.inclinometer_frontsight, "fs"),
       InclinometerError(f.inclinometer_backsight, "bs") >>

\* the header checks in the order the handler makes them: the message each
\* would flash, "" where it passes
HeaderChecks(f) ==
    << Required(Strip(f.cave_name), "Cave name is required."),
       Required(Strip(f.survey_date), "Survey date is required."),
       Required(f.data_accuracy, "You must confirm the accuracy of the survey data."),
       Required(Strip(f.book_sketch_person), "Book/Sketch person is required."),
       Required(Strip(f.instrument_reader), "Instrument reader is required."),
       Required(Strip(f.tape_person), "Tape person is required."),
       Required(Strip(f.point_person), "Point person is required."),
       Required(Strip(f.trip_leader), "Trip/Survey leader is required."),
       Required(Strip(f.compass_id), "Compass ID is required."),
       Required(Strip(f.inclinometer_id), "Inclinometer ID is required."),
       Required(f.crf_compass_course, "You must confirm the CRF Compass Course."),
       CompassFsError(f.compass_frontsight),
       CompassBsError(f.compass_backsight),
       InclinometerError(f.inclinometer_frontsight, "fs"),
       InclinometerError(f.inclinometer_backsight, "bs") >>

\* the messages of the checks that fail, in order
Failing(checks) == SelectSeq(checks, LAMBDA m : m # "")

FailedHeaderChecks(f) == Failing(HeaderChecks(f))

\* FirstFlash collecting every failing check before it returns
FirstFlash_All(bad) == [j \in 1..Len(bad) |-> Msg(bad[j])]

\* each failing check flashes and returns at once: of the failing checks the
\* handler reports the first only
FirstFlash(bad) == IF bad = <<>> THEN <<>> ELSE <<Msg(bad[1])>>

HeaderFlashes(f) == FirstFlash(FailedHeaderChecks(f))

\* "float(xs[i]) if i < len(xs) and xs[i].strip() else dflt"
FloatAt(xs, i, dflt) ==
    IF i <= Len(xs) /\ Truthy(Strip(xs[i])) THEN ParseFloat(xs[i]) ELSE dflt

\* the row is processed at all: both stations non-blank
RowKept(f, i) ==
    /\ i <= Len(f.to_station)
    /\ Truthy(Strip(f.from_station[i]))
    /\ Truthy(Strip(f.to_station[i]))

\* the converted row i of the form
RowValues(f, i) ==
    [from_station |-> Strip(f.from_station[i]),
     to_station |-> Strip(f.to_station[i]),
     distance |-> FloatAt(f.distance, i, None),
     azimuth_fs |-> FloatAt(f.azimuth_fs, i, None),
     azimuth_bs |-> FloatAt(f.azimuth_bs, i, None),
     inclination_fs |-> FloatAt(f.inclination_fs, i, None),
     inclination_bs |-> FloatAt(f.inclination_bs, i, None),
     left |-> FloatAt(f.left, i, Num(0)),
     right |-> FloatAt(f.right, i, Num(0)),
     up |-> FloatAt(f.up, i, Num(0)),
     down |-> FloatAt(f.down, i, Num(0)),
     note |-> IF i <= Len(f.notes) THEN Strip(f.notes[i]) ELSE <<>>]

NumericFields ==
    {"distance", "azimuth_fs", "azimuth_bs", "inclination_fs", "inclination_bs",
     "left", "right", "up", "down"}

\* some float() of the row raised ValueError
RowRaises(row) == \E fld \in NumericFields : row[fld].k = "err"

\* distance < 0
DistanceBad(d) == d.k # "none" /\ FLt(d, 0)

\* azimuth out of range: az < 0 or az >= 360
AzimuthBad(az) == az.k # "none" /\ (FLt(az, 0) \/ FGe(az, 360))

\* inclination out of range: inc < -90 or inc > 90
InclinationBad(inc) == inc.k # "none" /\ (FLt(inc, -90) \/ FGt(inc, 90))

\* left < 0 or right < 0 or up < 0 or down < 0
LrudBad(row) == FLt(row.left, 0) \/ FLt(row.right, 0) \/ FLt(row.up, 0) \/ FLt(row.down, 0)

\* abs(x) and min(a, b, c) of numbers
Abs(x) == IF x < 0 THEN -x ELSE x
Min3(a, b, c) == IF a <= b /\ a <= c THEN a ELSE IF b <= c THEN b ELSE c

\* the azimuth variance without the abs() around the three candidates
AzimuthVariance_NoAbs(azimuth_fs, azimuth_bs) ==
    Min3(Abs(azimuth_fs - azimuth_bs) - 1800,
         Abs(azimuth_fs - azimuth_bs) - 1800 + 3600,
         Abs(azimuth_fs - azimuth_bs) - 1800 - 3600)

\* diff = abs(azimuth_fs - azimuth_bs);
\* azimuth_variance = min(abs(diff - 180), abs(diff - 180 + 360), abs(diff - 180 - 360)),
\* readings and variance in tenths of a degree
AzimuthVariance(azimuth_fs, azimuth_bs) ==
    Min3(Abs(Abs(azimuth_fs - azimuth_bs) - 1800),
         Abs(Abs(azimuth_fs - azimuth_bs) - 1800 + 3600),
         Abs(Abs(azimuth_fs - azimuth_bs) - 1800 - 3600))

\* incline_variance = abs(inclination_fs + inclination_bs), in tenths
InclineVariance(inclination_fs, inclination_bs) == Abs(inclination_fs + inclination_bs)

\* "if violated: validation_errors.append(message)"
Violation(violated, message) == IF violated THEN message ELSE ""

\* RowChecks with the two disabled variance branches enabled: a variance of
\* more than 5 degrees is a violation
RowChecks_EnforcesVariance(row) ==
    << Violation(DistanceBad(row.distance), "Distance cannot be negative"),
       Violation(AzimuthBad(row.azimuth_fs), "Frontsight azimuth must be 0-359"),
       Violation(AzimuthBad(row.azimuth_bs), "Backsight azimuth must be 0-359"),
       Violation(InclinationBad(row.inclination_fs), "Frontsight inclination must be -90 to 90"),
       Violation(InclinationBad(row.inclination_bs), "Backsight inclination must be -90 to 90"),
       Violation(LrudBad(row), "LRUD values cannot be negative"),
       Violation(Len(row.from_station) > MaxStationLen, "From station name too long"),
       Violation(Len(row.to_station) > MaxStationLen, "To station name too long"),
       Violation(row.azimuth_fs.k = "num" /\ row.azimuth_bs.k = "num"
                   /\ AzimuthVariance(row.azimuth_fs.v, row.azimuth_bs.v) > 50,
                 "Large azimuth variance"),
       Violation(row.inclination_fs.k = "num" /\ row.inclination_bs.k = "num"
                   /\ InclineVariance(row.inclination_fs.v, row.inclination_bs.v) > 50,
                 "Large inclination variance") >>

\* the range and length checks of one converted row, in order: the message of
\* each, "" where it passes; the variances of lines 1183-1195 are computed
\* and lead to nothing ("pass")
RowChecks(row) ==
    << Violation(DistanceBad(row.distance), "Distance cannot be negative"),
       Violation(AzimuthBad(row.azimuth_fs), "Frontsight azimuth must be 0-359"),
       Violation(AzimuthBad(row.azimuth_bs), "Backsight azimuth must be 0-359"),
       Violation(InclinationBad(row.inclination_fs), "Frontsight inclination must be -90 to 90"),
       Violation(InclinationBad(row.inclination_bs), "Backsight inclination must be -90 to 90"),
       Violation(LrudBad(row), "LRUD values cannot be negative"),
       Violation(Len(row.from_station) > MaxStationLen, "From station name too long"),
       Violation(Len(row.to_station) > MaxStationLen, "To station name too long") >>

\* the messages bad, as the errors of row i
AsShotErrors(i, bad) == [j \in 1..Len(bad) |-> ShotMsg(i, bad[j])]

\* RowErrors with "except ValueError: pass": the row is dropped silently
RowErrors_IgnoresValueError(i, row) ==
    IF RowRaises(row) THEN <<>> ELSE AsShotErrors(i, Failing(RowChecks(row)))

\* RowErrors running the checks of a row whose conversion raised as well
RowErrors_ChecksAfterValueError(i, row) ==
    (IF RowRaises(row) THEN <<ShotMsg(i, "Invalid numeric value")>> ELSE <<>>)
    \o AsShotErrors(i, Failing(RowChecks(row)))

\* the violations the converted row i appends to validation_errors: the
\* ValueError alone when a conversion raised, else the failing checks
RowErrors(i, row) ==
    IF RowRaises(row) THEN <<ShotMsg(i, "Invalid numeric value")>>
    ELSE AsShotErrors(i, Failing(RowChecks(row)))

\* the dict appended to survey_shots, as json.dumps writes it
ShotJson(row) ==
    [from_station |-> JStr(row.from_station),
     to_station |-> JStr(row.to_station),
     distance |-> JNum(row.distance),
     azimuth_fs |-> JNum(row.azimuth_fs),
     azimuth_bs |-> JNum(row.azimuth_bs),
     inclination_fs |-> JNum(row.inclination_fs),
     inclination_bs |-> JNum(row.inclination_bs),
     left |-> JNum(row.left),
     right |-> JNum(row.right),
     up |-> JNum(row.up),
     down |-> JNum(row.down),
     note |-> JStr(row.note),
     notes |-> JAbsent]

\* one kept row: its violations join validation_errors, and it joins
\* survey_shots unless a conversion raised
AddRow(acc, i, row) ==
    [shots |-> IF RowRaises(row) THEN acc.shots ELSE Append(acc.shots, row),
     errors |-> acc.errors \o RowErrors(i, row)]

\* ProcessRow leaving the loop at the first bad shot
ProcessRow_StopAtFirstBad(acc, f, i) ==
    IF RowKept(f, i) /\ acc.errors = <<>> THEN AddRow(acc, i, RowValues(f, i)) ELSE acc

\* one turn of the loop over the rows
ProcessRow(acc, f, i) == IF RowKept(f, i) THEN AddRow(acc, i, RowValues(f, i)) ELSE acc

\* the loop over the rows: survey_shots (converted rows, in order) and
\* validation_errors after rows 1..i
RECURSIVE ProcessRows(_, _)
ProcessRows(f, i) ==
    IF i = 0 THEN [shots |-> <<>>, errors |-> <<>>]
    ELSE ProcessRow(ProcessRows(f, i - 1), f, i)

\* what is flashed for a non-empty validation_errors
ErrorFlashes(errors) ==
    IF Len(errors) > MaxShownErrors
    THEN Append(SubSeq(errors, 1, MaxShownErrors), MoreMsg(Len(errors) - MaxShownErrors))
    ELSE errors

\* Decide without the return after the shot violations are flashed
Decide_NoReturnOnShotErrors(hf, p) ==
    IF hf # <<>> THEN [ok |-> FALSE, flashes |-> hf, shots |-> <<>>]
    ELSE IF Len(p.shots) = 0
         THEN [ok |-> FALSE, flashes |-> <<Msg("At least one survey shot is required.")>>,
               shots |-> <<>>]
    ELSE [ok |-> TRUE, flashes |-> ErrorFlashes(p.errors), shots |-> p.shots]

\* Decide without the check of valid_shot_count
Decide_NoEmptyCheck(hf, p) ==
    IF hf # <<>> THEN [ok |-> FALSE, flashes |-> hf, shots |-> <<>>]
    ELSE IF p.errors # <<>>
         THEN [ok |-> FALSE, flashes |-> ErrorFlashes(p.errors), shots |-> <<>>]
    ELSE [ok |-> TRUE, flashes |-> <<>>, shots |-> p.shots]

\* the outcome of the validation, given the header flashes hf and the result
\* p of the loop over the rows
Decide(hf, p) ==
    IF hf # <<>> THEN [ok |-> FALSE, flashes |-> hf, shots |-> <<>>]
    ELSE IF p.errors # <<>>
         THEN [ok |-> FALSE, flashes |-> ErrorFlashes(p.errors), shots |-> <<>>]
    ELSE IF Len(p.shots) = 0
         THEN [ok |-> FALSE, flashes |-> <<Msg("At least one survey shot is required.")>>,
               shots |-> <<>>]
    ELSE [ok |-> TRUE, flashes |-> <<>>, shots |-> p.shots]

\* survey_submit up to the database: the messages flashed, whether the
\* handler goes on to persist, and the shots it would persist
ValidateSubmission(f) == Decide(HeaderFlashes(f), ProcessRows(f, Len(f.from_station)))

(***************************************************************************)
(* The database.  db holds the committed rows of each table; a request's   *)
(* tx holds the rows its connection has inserted and not yet committed.    *)
(***************************************************************************)
Tables ==
    {"survey_header", "caves", "surveys", "shots", "people", "survey_team",
     "participants", "trips", "settings"}

\* a connection as get_cave_survey_db_connection hands it out: a transaction
\* with no writes yet
EmptyTx == [t \in Tables |-> {}]

\* the request slots: one connection each
Slots == {1, 2}

\* what a statement of request r sees of a table: the committed rows and the
\* rows of its own transaction
Visible(r, t) == db[t] \cup req[r].tx[t]

SetMax(S) == IF S = {} THEN 0 ELSE CHOOSE x \in S : \A y \in S : y <= x

\* cursor.lastrowid of an insert: a key no row of the table has, committed or
\* pending in any transaction
NewId(t, key) ==
    1 + SetMax({row[key] : row \in db[t] \cup UNION {req[r].tx[t] : r \in Slots}})

\* f"{county}, {state}" if county and state else (state or '')
CaveLocation(county, state) ==
    IF Truthy(county) /\ Truthy(state) THEN county \o <<",", " ">> \o state ELSE state

\* team_roles, over the stripped names
TeamRoles(f) ==
    << <<"sketch_book", Strip(f.book_sketch_person)>>,
       <<"foresight", Strip(f.instrument_reader)>>,
       <<"backsight", Strip(f.tape_person)>>,
       <<"other", Strip(f.point_person)>> >>

\* 1 if request.form.get(box) else 0
Checkbox(raw) == IF Truthy(raw) THEN 1 ELSE 0

\* the survey_header row survey_submit inserts
HeaderRow(id, f, shots) ==
    [id |-> id,
     cave_name |-> Strip(f.cave_name),
     state |-> Strip(f.state),
     county |-> Strip(f.county),
     survey_date |-> Strip(f.survey_date),
     book_sketch_person |-> Strip(f.book_sketch_person),
     instrument_reader |-> Strip(f.instrument_reader),
     tape_person |-> Strip(f.tape_person),
     point_person |-> Strip(f.point_person),
     trip_leader |-> Strip(f.trip_leader),
     compass_id |-> Strip(f.compass_id),
     compass_frontsight |-> JNum(Reading(f.compass_frontsight)),
     compass_backsight |-> JNum(Reading(f.compass_backsight)),
     inclinometer_id |-> Strip(f.inclinometer_id),
     inclinometer_frontsight |-> JNum(Reading(f.inclinometer_frontsight)),
     inclinometer_backsight |-> JNum(Reading(f.inclinometer_backsight)),
     crf_compass_course |-> Checkbox(f.crf_compass_course),
     instruments_crf_course |-> Checkbox(f.instruments_crf_course),
     data_accuracy |-> Checkbox(f.data_accuracy),
     survey_shots_json |-> [k \in 1..Len(shots) |-> ShotJson(shots[k])]]

\* ShotRow numbering from enumerate's 0-based index
ShotRow_ZeroBased(id, psid, k, shot) ==
    [shot_id |-> id,
     survey_id |-> psid,
     sequence_in_page |-> k - 1,
     station_from |-> shot.from_station,
     station_to |-> shot.to_station,
     distance |-> shot.distance,
     fs_azimuth_deg |-> shot.azimuth_fs,
     bs_azimuth_deg |-> shot.azimuth_bs,
     fs_incline_deg |-> shot.inclination_fs,
     bs_incline_deg |-> shot.inclination_bs,
     lrud_left |-> shot.left,
     lrud_right |-> shot.right,
     lrud_up |-> shot.up,
     lrud_down |-> shot.down,
     note |-> shot.note]

\* the shots row of the k-th entry of survey_shots (enumerate is 0-based, the
\* sequence number i + 1)
ShotRow(id, psid, k, shot) ==
    [shot_id |-> id,
     survey_id |-> psid,
     sequence_in_page |-> k,
     station_from |-> shot.from_station,
     station_to |-> shot.to_station,
     distance |-> shot.distance,
     fs_azimuth_deg |-> shot.azimuth_fs,
     bs_azimuth_deg |-> shot.azimuth_bs,
     fs_incline_deg |-> shot.inclination_fs,
     bs_incline_deg |-> shot.inclination_bs,
     lrud_left |-> shot.left,
     lrud_right |-> shot.right,
     lrud_up |-> shot.up,
     lrud_down |-> shot.down,
     note |-> shot.note]

(***************************************************************************)
(* Requests.                                                               *)
(***************************************************************************)
NoForm ==
    [cave_name |-> <<>>, state |-> <<>>, county |-> <<>>, survey_date |-> <<>>,
     book_sketch_person |-> <<>>, instrument_reader |-> <<>>, tape_person |-> <<>>,
     point_person |-> <<>>, trip_leader |-> <<>>,
     compass_id |-> <<>>, compass_frontsight |-> <<>>, compass_backsight |-> <<>>,
     inclinometer_id |-> <<>>, inclinometer_frontsight |-> <<>>,
     inclinometer_backsight |-> <<>>,
     crf_compass_course |-> <<>>, instruments_crf_course |-> <<>>, data_accuracy |-> <<>>,
     from_station |-> <<>>, to_station |-> <<>>, distance |-> <<>>,
     azimuth_fs |-> <<>>, azimuth_bs |-> <<>>, inclination_fs |-> <<>>,
     inclination_bs |-> <<>>, left |-> <<>>, right |-> <<>>, up |-> <<>>, down |-> <<>>,
     notes |-> <<>>]

\* a slot no request has used: kind is the handler, form its input, flashes
\* and outcome its response, db0 the committed rows when it began, puts the
\* calls of return_connection for its connection; the rest are the handler's
\* locals
IdleReq ==
    [pc |-> "idle", kind |-> "none", form |-> NoForm, target |-> 0,
     flashes |-> <<>>, outcome |-> "none", db0 |-> EmptyTx,
     shots |-> <<>>, tx |-> EmptyTx, survey_id |-> 0, cave_id |-> 0,
     professional_survey_id |-> 0, person_id |-> 0, i |-> 0, t |-> 0, puts |-> 0,
     passcode |-> <<>>]

\* shot_to_cartesian has not been called: no arguments, no result
NoCall ==
    [pc |-> "none", distance |-> None, azimuth_deg |-> None, inclination_deg |-> None,
     result |-> [k |-> "none", dx |-> Num(0), dy |-> Num(0), dz |-> Num(0)]]

\* no pair of readings has been compared
NoSight ==
    [pc |-> "none", azimuth_fs |-> 0, azimuth_bs |-> 0, inclination_fs |-> 0,
     inclination_bs |-> 0, azimuth_variance |-> 0, incline_variance |-> 0]

\* no handler is running in slot r
Free(r) == req[r].pc \in {"idle", "done"}

Init ==
    /\ db = EmptyTx
    /\ req = [r \in Slots |-> IdleReq]
    /\ nreq = 0
    /\ admin_authenticated = FALSE
    /\ used = 0
    /\ cart = NoCall
    /\ sight = NoSight

\* init_cave_survey_db(): the tables are there afterwards; no row is touched
InitCaveSurveyDb(d) == d

\* db_pool.getconn() hands out a connection while fewer than maxconn are
\* checked out, and raises PoolError otherwise
PoolHasConnection == used < MaxConn

\* the handler after its validation v: a rejected submission has flashed and
\* returned; an accepted one takes a connection and goes on to insert, or
\* fails when there is none (connected: the pool had one)
AfterValidation(base, v, connected) ==
    IF ~v.ok
    THEN [base EXCEPT !.pc = "done", !.outcome = "rejected", !.flashes = v.flashes]
    ELSE IF connected
    THEN [base EXCEPT !.pc = "insert_header", !.shots = v.shots, !.flashes = v.flashes]
    ELSE [base EXCEPT !.pc = "done", !.outcome = "failed",
                      !.flashes = <<Msg("Survey submission failed")>>]

\* survey_submit, from the request to the first database statement
SurveySubmit(r, f) ==
    /\ Free(r)
    /\ nreq' = nreq + 1
    /\ req' = [req EXCEPT ![r] =
                 AfterValidation([IdleReq EXCEPT !.kind = "submit", !.form = f, !.db0 = db],
                                 ValidateSubmission(f), PoolHasConnection)]
    /\ used' = IF req'[r].pc = "insert_header" THEN used + 1 ELSE used
    /\ db' = InitCaveSurveyDb(db)
    /\ UNCHANGED <<admin_authenticated, calls>>

\* cursor.execute of an INSERT by request r: the row joins r's transaction,
\* and `upd` are the handler's locals after it
Insert(r, t, row, upd) ==
    /\ req' = [req EXCEPT ![r] = [upd EXCEPT !.tx[t] = @ \cup {row}]]
    /\ UNCHANGED <<db, nreq, admin_authenticated, used, calls>>

\* InsertHeader with a conn.commit() of the header before the second schema
InsertHeader_ThenCommit(r) ==
    /\ req[r].pc = "insert_header"
    /\ LET id == NewId("survey_header", "id")
       IN /\ db' = [db EXCEPT !["survey_header"] =
                      @ \cup {HeaderRow(id, req[r].form, req[r].shots)}]
          /\ req' = [req EXCEPT ![r].pc = "select_cave", ![r].survey_id = id]
    /\ UNCHANGED <<nreq, admin_authenticated, used, calls>>

\* INSERT INTO survey_header
InsertHeader(r) ==
    /\ req[r].pc = "insert_header"
    /\ LET id == NewId("survey_header", "id")
       IN Insert(r, "survey_header", HeaderRow(id, req[r].form, req[r].shots),
                 [req[r] EXCEPT !.pc = "select_cave", !.survey_id = id])

\* SelectCave whose lookup never finds the cave
SelectCave_AlwaysMiss(r) ==
    /\ req[r].pc = "select_cave"
    /\ req' = [req EXCEPT ![r].pc = "insert_cave"]
    /\ UNCHANGED <<db, nreq, admin_authenticated, used, calls>>

\* SELECT cave_id FROM caves WHERE name = .. AND location_text = ..; fetchone
SelectCave(r) ==
    /\ req[r].pc = "select_cave"
    /\ LET f == req[r].form
           name == Strip(f.cave_name)
           loc == CaveLocation(Strip(f.county), Strip(f.state))
           found == {c \in Visible(r, "caves") : c.name = name /\ c.location_text = loc}
       IN IF found = {}
          THEN req' = [req EXCEPT ![r].pc = "insert_cave"]
          ELSE \E c \in found :
                 req' = [req EXCEPT ![r].pc = "insert_survey", ![r].cave_id = c.cave_id]
    /\ UNCHANGED <<db, nreq, admin_authenticated, used, calls>>

\* INSERT INTO caves
InsertCave(r) ==
    /\ req[r].pc = "insert_cave"
    /\ LET f == req[r].form
           id == NewId("caves", "cave_id")
       IN Insert(r, "caves",
                 [cave_id |-> id, name |-> Strip(f.cave_name),
                  location_text |-> CaveLocation(Strip(f.county), Strip(f.state))],
                 [req[r] EXCEPT !.pc = "insert_survey", !.cave_id = id])

\* INSERT INTO surveys
InsertSurvey(r) ==
    /\ req[r].pc = "insert_survey"
    /\ LET id == NewId("surveys", "survey_id")
       IN Insert(r, "surveys",
                 [survey_id |-> id, cave_id |-> req[r].cave_id,
                  date |-> Strip(req[r].form.survey_date)],
                 [req[r] EXCEPT !.pc = "insert_shot", !.professional_survey_id = id,
                                !.i = 1])

\* one turn of "for i, shot in enumerate(survey_shots)": INSERT INTO shots
InsertShot(r) ==
    /\ req[r].pc = "insert_shot"
    /\ LET k == req[r].i
           last == k = Len(req[r].shots)
       IN Insert(r, "shots",
                 ShotRow(NewId("shots", "shot_id"), req[r].professional_survey_id, k,
                         req[r].shots[k]),
                 [req[r] EXCEPT !.i = k + 1,
                                !.pc = IF last THEN "select_person" ELSE "insert_shot",
                                !.t = IF last THEN 1 ELSE 0])

\* SelectPerson whose lookup never finds the person
SelectPerson_AlwaysMiss(r) ==
    /\ req[r].pc = "select_person"
    /\ req' = [req EXCEPT ![r].pc = "insert_person"]
    /\ UNCHANGED <<db, nreq, admin_authenticated, used, calls>>

\* one turn of "for role, person_name in team_roles", up to the lookup:
\* SELECT person_id FROM people WHERE full_name = ..; fetchone.  A role with
\* no name is passed over
SelectPerson(r) ==
    /\ req[r].pc = "select_person"
    /\ LET t == req[r].t
           roles == TeamRoles(req[r].form)
           name == roles[t][2]
           found == {p \in Visible(r, "people") : p.full_name = name}
           after == IF t = Len(roles) THEN "commit" ELSE "select_person"
       IN IF ~Truthy(name)
          THEN req' = [req EXCEPT ![r].pc = after, ![r].t = t + 1]
          ELSE IF found = {}
          THEN req' = [req EXCEPT ![r].pc = "insert_person"]
          ELSE \E p \in found :
                 req' = [req EXCEPT ![r].pc = "insert_team", ![r].person_id = p.person_id]
    /\ UNCHANGED <<db, nreq, admin_authenticated, used, calls>>

\* INSERT INTO people
InsertPerson(r) ==
    /\ req[r].pc = "insert_person"
    /\ LET id == NewId("people", "person_id")
       IN Insert(r, "people",
                 [person_id |-> id, full_name |-> TeamRoles(req[r].form)[req[r].t][2]],
                 [req[r] EXCEPT !.pc = "insert_team", !.person_id = id])

\* INSERT INTO survey_team, and on to the next role or to the commit
InsertTeam(r) ==
    /\ req[r].pc = "insert_team"
    /\ LET t == req[r].t
           roles == TeamRoles(req[r].form)
       IN Insert(r, "survey_team",
                 [survey_id |-> req[r].professional_survey_id,
                  person_id |-> req[r].person_id,
                  display_name |-> roles[t][2], role |-> roles[t][1]],
                 [req[r] EXCEPT !.t = t + 1,
                                !.pc = IF t = Len(roles) THEN "commit" ELSE "select_person"])

\* Commit reporting the number of submitted rows, not of kept shots
Commit_CountsRows(r) ==
    /\ req[r].pc = "commit"
    /\ db' = [t \in Tables |-> db[t] \cup req[r].tx[t]]
    /\ req' = [req EXCEPT ![r].pc = "done", ![r].outcome = "success", ![r].tx = EmptyTx,
                          ![r].puts = 1,
                          ![r].flashes = <<[msg |-> "submitted successfully", shot |-> 0,
                                            n |-> Len(req[r].form.from_station)]>>]
    /\ used' = used - 1
    /\ UNCHANGED <<nreq, admin_authenticated, calls>>

\* conn.commit(), return_connection, the success flash and the redirect
Commit(r) ==
    /\ req[r].pc = "commit"
    /\ db' = [t \in Tables |-> db[t] \cup req[r].tx[t]]
    /\ req' = [req EXCEPT ![r].pc = "done", ![r].outcome = "success", ![r].tx = EmptyTx,
                          ![r].puts = 1,
                          ![r].flashes = <<[msg |-> "submitted successfully", shot |-> 0,
                                            n |-> Len(req[r].shots)]>>]
    /\ used' = used - 1
    /\ UNCHANGED <<nreq, admin_authenticated, calls>>

\* the handler is between its first database statement and the commit
Persisting(r) ==
    req[r].pc \in {"insert_header", "select_cave", "insert_cave", "insert_survey",
                   "insert_shot", "select_person", "insert_person", "insert_team",
                   "commit"}

\* what a database statement can raise, by the handler that catches it
Raised == {"ValueError", "Exception"}

\* flash(f'Invalid data format: ..') / flash(f'Survey submission failed: ..')
FailureFlash(e) ==
    IF e = "ValueError" THEN Msg("Invalid data format") ELSE Msg("Survey submission failed")

\* a database statement (or the commit) raises e: "except ValueError" or
\* "except Exception" flashes the failure and redirects; nothing was
\* committed, and the connection with its pending rows is never used again
ExecuteFails(r, e) ==
    /\ Persisting(r)
    /\ req' = [req EXCEPT ![r].pc = "done", ![r].outcome = "failed", ![r].tx = EmptyTx,
                          ![r].flashes = <<FailureFlash(e)>>]
    /\ UNCHANGED <<db, nreq, admin_authenticated, used, calls>>

(***************************************************************************)
(* Admin session and the admin edit of a stored survey header.             *)
(***************************************************************************)
\* os.getenv('ADMIN_PASSCODE', 'expedition2025')
ADMIN_PASSCODE ==
    <<"e", "x", "p", "e", "d", "i", "t", "i", "o", "n", "2", "0", "2", "5">>

\* AdminLoginSubmit letting every passcode in
AdminLoginSubmit_AnyPasscode(r, passcode) ==
    /\ Free(r)
    /\ req' = [req EXCEPT ![r] = [IdleReq EXCEPT !.pc = "done", !.kind = "login",
                                                 !.passcode = passcode,
                                                 !.outcome = "logged_in", !.db0 = db]]
    /\ admin_authenticated' = TRUE
    /\ UNCHANGED <<db, nreq, used, calls>>

\* admin_login_submit: the request of slot r is the login with the form's
\* passcode
AdminLoginSubmit(r, passcode) ==
    /\ Free(r)
    /\ req' = [req EXCEPT ![r] =
          [IdleReq EXCEPT !.pc = "done", !.kind = "login", !.passcode = passcode,
                          !.db0 = db,
                          !.outcome = IF Strip(passcode) = ADMIN_PASSCODE THEN "logged_in"
                                      ELSE "invalid_passcode",
                          !.flashes = IF Strip(passcode) = ADMIN_PASSCODE
                                      THEN <<Msg("Welcome to the admin dashboard!")>>
                                      ELSE <<Msg("Invalid passcode. Please try again.")>>]]
    /\ admin_authenticated' = IF Strip(passcode) = ADMIN_PASSCODE THEN TRUE
                              ELSE admin_authenticated
    /\ UNCHANGED <<db, nreq, used, calls>>

\* admin_logout: session.pop('admin_authenticated', None)
AdminLogout ==
    /\ admin_authenticated' = FALSE
    /\ UNCHANGED <<db, req, nreq, used, calls>>

\* what a handler has done when it returns: its response, how often it
\* called return_connection, and the connections checked out afterwards
Response(kind, outcome, flashes, puts, u) ==
    [kind |-> kind, outcome |-> outcome, flashes |-> flashes, puts |-> puts, used |-> u]

\* the request of slot r, about row `target`, has been handled with result h
Handled(r, target, f, h) ==
    /\ Free(r)
    /\ nreq' = nreq + 1
    /\ req' = [req EXCEPT ![r] = [IdleReq EXCEPT !.pc = "done", !.kind = h.kind,
                                                 !.target = target, !.form = f,
                                                 !.outcome = h.outcome,
                                                 !.flashes = h.flashes,
                                                 !.puts = h.puts, !.db0 = db]]
    /\ used' = h.used

\* admin_survey_delete after its guard: the connection of
\* get_cave_survey_db_connection (connected: the pool had one); SELECT the
\* header, 'Survey not found' gives the connection back; else DELETE, commit
\* and the connection goes back.  The except block does not give it back
SurveyDelete(connected, found, raises) ==
    IF ~connected THEN Response("survey_delete", "failed", <<>>, 0, used)
    ELSE IF raises THEN Response("survey_delete", "failed", <<>>, 0, used + 1)
    ELSE IF ~found
    THEN Response("survey_delete", "not_found", <<Msg("Survey not found")>>, 1, used)
    ELSE Response("survey_delete", "success", <<Msg("deleted successfully")>>, 1, used)

\* DeleteSurvey without its WHERE clause
DeleteSurvey_NoWhere(d, survey_id) == [d EXCEPT !["survey_header"] = {}]

\* DELETE FROM survey_header WHERE id = %s
DeleteSurvey(d, survey_id) ==
    [d EXCEPT !["survey_header"] = {h \in @ : h.id # survey_id}]

\* admin_survey_delete(survey_id)
AdminSurveyDelete(r, survey_id, raises) ==
    /\ Handled(r, survey_id, NoForm,
               IF ~admin_authenticated
               THEN Response("survey_delete", "not_authenticated",
                             <<Msg("Not authenticated")>>, 0, used)
               ELSE SurveyDelete(PoolHasConnection,
                                 \E h \in db["survey_header"] : h.id = survey_id, raises))
    /\ db' = IF req'[r].outcome = "success" THEN DeleteSurvey(db, survey_id) ELSE db
    /\ UNCHANGED <<admin_authenticated, calls>>

\* xs[i] if i < len(xs) else ''
TextAt(xs, i) == IF i <= Len(xs) THEN xs[i] ELSE <<>>

\* the dict admin_survey_update appends for row i: the texts as received
EditShotJson(f, i) ==
    [from_station |-> JStr(f.from_station[i]),
     to_station |-> JStr(TextAt(f.to_station, i)),
     distance |-> JStr(TextAt(f.distance, i)),
     azimuth_fs |-> JStr(TextAt(f.azimuth_fs, i)),
     azimuth_bs |-> JStr(TextAt(f.azimuth_bs, i)),
     inclination_fs |-> JStr(TextAt(f.inclination_fs, i)),
     inclination_bs |-> JStr(TextAt(f.inclination_bs, i)),
     left |-> JStr(TextAt(f.left, i)),
     right |-> JStr(TextAt(f.right, i)),
     up |-> JStr(TextAt(f.up, i)),
     down |-> JStr(TextAt(f.down, i)),
     note |-> JAbsent,
     notes |-> JStr(TextAt(f.notes, i))]

\* "if from_stations[i].strip()": the edit keeps a row on its from_station alone
EditRowKept(f, i) == Truthy(Strip(f.from_station[i]))

\* the survey_shots list admin_survey_update builds from rows 1..i
RECURSIVE EditShots(_, _)
EditShots(f, i) ==
    IF i = 0 THEN <<>>
    ELSE IF EditRowKept(f, i) THEN Append(EditShots(f, i - 1), EditShotJson(f, i))
         ELSE EditShots(f, i - 1)

\* the survey_header row after the UPDATE
EditedHeaderRow(id, f) ==
    [id |-> id,
     cave_name |-> Strip(f.cave_name),
     state |-> Strip(f.state),
     county |-> Strip(f.county),
     survey_date |-> Strip(f.survey_date),
     book_sketch_person |-> Strip(f.book_sketch_person),
     instrument_reader |-> Strip(f.instrument_reader),
     tape_person |-> Strip(f.tape_person),
     point_person |-> Strip(f.point_person),
     trip_leader |-> Strip(f.trip_leader),
     compass_id |-> Strip(f.compass_id),
     compass_frontsight |-> JStr(f.compass_frontsight),
     compass_backsight |-> JStr(f.compass_backsight),
     inclinometer_id |-> Strip(f.inclinometer_id),
     inclinometer_frontsight |-> JStr(f.inclinometer_frontsight),
     inclinometer_backsight |-> JStr(f.inclinometer_backsight),
     crf_compass_course |-> Checkbox(f.crf_compass_course),
     instruments_crf_course |-> Checkbox(f.instruments_crf_course),
     data_accuracy |-> Checkbox(f.data_accuracy),
     survey_shots_json |-> EditShots(f, Len(f.from_station))]

\* UpdateHeader appending the submitted shots to the stored sequence
UpdateHeader_Merges(d, sid, f) ==
    [d EXCEPT !["survey_header"] =
       {IF h.id = sid
        THEN [EditedHeaderRow(sid, f) EXCEPT !.survey_shots_json = h.survey_shots_json \o @]
        ELSE h : h \in @}]

\* UpdateHeader without its WHERE clause
UpdateHeader_NoWhere(d, sid, f) ==
    [d EXCEPT !["survey_header"] = {EditedHeaderRow(h.id, f) : h \in @}]

\* UPDATE survey_header SET .. WHERE id = sid, on the tables d
UpdateHeader(d, sid, f) ==
    [d EXCEPT !["survey_header"] =
       {IF h.id = sid THEN EditedHeaderRow(sid, f) ELSE h : h \in @}]

\* admin_survey_update(survey_id): the whole handler.  The UPDATE and its
\* commit are one statement; `raises` is the database failing on it, after
\* which the connection is not given back
AdminSurveyUpdate(r, sid, f, raises) ==
    /\ Free(r)
    /\ nreq' = nreq + 1
    /\ LET base == [IdleReq EXCEPT !.kind = "edit", !.form = f, !.target = sid,
                                   !.db0 = db, !.pc = "done"]
           ok == /\ admin_authenticated
                 /\ Truthy(Strip(f.cave_name)) /\ Truthy(Strip(f.survey_date))
                 /\ PoolHasConnection
           leaks == ok /\ raises
       IN /\ req' = [req EXCEPT ![r] =
                IF ~admin_authenticated
                THEN [base EXCEPT !.outcome = "redirect_login"]
                ELSE IF ~Truthy(Strip(f.cave_name)) \/ ~Truthy(Strip(f.survey_date))
                THEN [base EXCEPT !.outcome = "rejected",
                                  !.flashes = <<Msg("Cave name and survey date are required.")>>]
                ELSE IF ~PoolHasConnection \/ raises
                THEN [base EXCEPT !.outcome = "failed",
                                  !.flashes = <<Msg("Error updating survey")>>]
                ELSE [base EXCEPT !.outcome = "success", !.puts = 1,
                                  !.flashes = <<Msg("Survey updated successfully!")>>]]
          /\ used' = IF leaks THEN used + 1 ELSE used
          /\ db' = IF ok /\ ~raises
                   THEN UpdateHeader(db, sid, f)
                   ELSE db
    /\ UNCHANGED <<admin_authenticated, calls>>

(***************************************************************************)
(* The inputs the requests are drawn from.                                 *)
(***************************************************************************)
tOn == <<"o", "n">>
tA1 == <<"A", "1">>
tA2 == <<"A", "2">>
tA3 == <<"A", "3">>
tA2Padded == <<" ", "A", "2", " ">>
tBlank == <<" ">>
tAnn == <<"A", "n", "n">>
tBob == <<"B", "o", "b">>
tCy == <<"C", "y">>
tDee == <<"D", "e", "e">>

\* the end-to-end scenario: a complete header and one shot A1 -> A2
BaseForm ==
    [NoForm EXCEPT
       !.cave_name = <<"T", "e", "s", "t", " ", "C", "a", "v", "e">>,
       !.state = <<"K", "Y">>, !.county = <<"H", "a", "r", "t">>,
       !.survey_date = <<"2", "0", "2", "5", "-", "1", "0", "-", "1", "1">>,
       !.book_sketch_person = tAnn, !.instrument_reader = tBob,
       !.tape_person = tAnn, !.point_person = tCy, !.trip_leader = tDee,
       !.compass_id = <<"X", "1">>, !.inclinometer_id = <<"Y", "1">>,
       !.crf_compass_course = tOn, !.data_accuracy = tOn,
       !.from_station = <<tA1>>, !.to_station = <<tA2>>,
       !.distance = << <<"1", "0">> >>, !.azimuth_fs = << <<"9", "0">> >>,
       !.inclination_fs = << <<"0">> >>]

\* a second row whose to_station is blank
FormBlankTo ==
    [BaseForm EXCEPT !.from_station = <<tA1, tA2>>, !.to_station = <<tA2Padded, <<>> >>,
                     !.distance = << <<"1", "0">>, <<"5">> >>]

\* two kept rows after a row with a blank from_station; the measurement lists
\* are shorter than the station lists
FormTwoShots ==
    [BaseForm EXCEPT !.from_station = <<tBlank, tA1, tA2>>, !.to_station = <<tA1, tA2, tA3>>,
                     !.distance = << <<>>, <<"1", "2", ".", "5">> >>,
                     !.azimuth_fs = << <<>>, <<"4", "5">>, <<"2", "7", "0">> >>,
                     !.azimuth_bs = << <<>>, <<"2", "2", "0">> >>,
                     !.inclination_fs = <<>>,
                     !.notes = << <<>>, <<" ", "w", "e", "t">> >>]

\* the to_station list is shorter than the from_station list
FormShortTo ==
    [BaseForm EXCEPT !.from_station = <<tA1, tA2>>, !.to_station = <<tA2>>]

\* another cave (no county), padded names, one person in every role
FormOtherCave ==
    [BaseForm EXCEPT !.cave_name = <<" ", "P", "i", "t", " ">>, !.county = <<>>,
                     !.book_sketch_person = <<" ", "B", "o", "b">>,
                     !.tape_person = tBob, !.point_person = tBob,
                     !.compass_frontsight = <<"2", "7", "0">>,
                     !.compass_backsight = <<"9", "0">>]

FormNoCompassId == [BaseForm EXCEPT !.compass_id = tBlank]

FormNoAccuracy == [FormTwoShots EXCEPT !.data_accuracy = <<>>]

FormNegativeDistance == [FormTwoShots EXCEPT !.distance = << <<>>, <<"1">>, <<"-", "1">> >>]

FormUnparsable == [FormTwoShots EXCEPT !.azimuth_fs = << <<>>, <<"4", "5">>, <<"N", "E">> >>]

FormNoShots == [BaseForm EXCEPT !.from_station = <<tA1, tBlank>>, !.to_station = <<<<>>, tA2>>]

\* the tape person of BaseForm in lower case
FormLowerCase == [BaseForm EXCEPT !.tape_person = <<"a", "n", "n">>]

SubmitForms ==
    {BaseForm, FormBlankTo, FormTwoShots, FormShortTo, FormOtherCave, FormLowerCase,
     FormNoCompassId,
     FormNoAccuracy, FormNegativeDistance, FormUnparsable, FormNoShots}

\* an edit that keeps a row with a blank to_station and an unparsable distance
EditBlankTo ==
    [BaseForm EXCEPT !.from_station = <<tA1, <<>>, tA3>>, !.to_station = <<tBlank, tA2>>,
                     !.distance = << <<"f", "a", "r">> >>, !.compass_id = <<>>]

\* an edit that renames the cave and replaces the shots
EditRename ==
    [BaseForm EXCEPT !.cave_name = <<"P", "i", "t">>, !.from_station = <<tA2>>,
                     !.to_station = <<tA3>>]

EditNoCaveName == [EditRename EXCEPT !.cave_name = tBlank]

EditForms == {EditBlankTo, EditRename, EditNoCaveName}

Passcodes == {ADMIN_PASSCODE, <<" ">> \o ADMIN_PASSCODE, <<"g", "u", "e", "s", "s">>}

\* the ids an edit can name: the surveys there can be, and one there is not
SurveyIds == 1..MaxRequests

\* requests are handled one after another, in slot 1
Next ==
    \/ nreq < MaxRequests /\ \E f \in SubmitForms : SurveySubmit(1, f)
    \/ InsertHeader(1)
    \/ SelectCave(1)
    \/ InsertCave(1)
    \/ InsertSurvey(1)
    \/ InsertShot(1)
    \/ SelectPerson(1)
    \/ InsertPerson(1)
    \/ InsertTeam(1)
    \/ Commit(1)
    \/ \E e \in Raised : ExecuteFails(1, e)
    \/ nreq < MaxRequests /\ \E sid \in SurveyIds, f \in EditForms, raises \in BOOLEAN :
                                 AdminSurveyUpdate(1, sid, f, raises)
    \/ nreq < MaxRequests /\ \E sid \in SurveyIds, raises \in BOOLEAN :
                                 AdminSurveyDelete(1, sid, raises)
    \/ \E p \in Passcodes : AdminLoginSubmit(1, p)
    \/ Free(1) /\ AdminLogout

Spec == Init /\ [][Next]_vars

(***************************************************************************)
(* The validation alone: one submission, drawn from a wider set of forms.  *)
(***************************************************************************)
\* the nine required header fields
RequiredTexts ==
    {"cave_name", "survey_date", "book_sketch_person", "instrument_reader", "tape_person",
     "point_person", "trip_leader", "compass_id", "inclinometer_id"}

\* how many rows a form of MultiRowForms has at most
MaxRows == 3

tStation20 == <<" ">> \o [i \in 1..MaxStationLen |-> "S"] \o <<" ">>
tStation21 == [i \in 1..(MaxStationLen + 1) |-> "S"]

\* the eleven requirements of the header
ElevenFields == RequiredTexts \cup {"crf_compass_course", "data_accuracy"}

\* BaseForm with the fields of `missing` not given: blank for some, empty for
\* the others
HeaderMissing(missing) ==
    [fld \in DOMAIN BaseForm |->
        IF fld \notin missing THEN BaseForm[fld]
        ELSE IF fld \in {"cave_name", "tape_person", "compass_id"} THEN tBlank
        ELSE <<>>]

\* three rows with seven violations between them
WithBadShots(f) ==
    [f EXCEPT !.from_station = <<tA1, tA2, tStation21>>,
              !.to_station = <<tA2, tA3, tA1>>,
              !.distance = << <<"-", "1">>, <<"2">>, <<"-", "0", ".", "5">> >>,
              !.azimuth_fs = << <<"3", "6", "0">>, <<"1", "0">>, <<"-", "1">> >>,
              !.inclination_bs = << <<"9", "1">>, <<>>, <<"-", "9", "1">> >>,
              !.up = << <<>>, <<"-", "3">> >>]

HeaderForms ==
    {HeaderMissing(m) : m \in SUBSET ElevenFields}
    \cup {WithBadShots(HeaderMissing(m)) : m \in SUBSET ElevenFields}

CompassFsTexts ==
    {<<>>, tBlank, <<"1", "8", "0">>, <<"1", "8", "0", ".", "1">>, <<" ", "2", "7", "0">>,
     <<"3", "6", "0">>, <<"3", "6", "0", ".", "1">>, <<"9", "0">>, <<"n", "a", "n">>,
     <<"S", "W">>}

CompassBsTexts ==
    {<<>>, tBlank, <<"0">>, <<"-", "0", ".", "1">>, <<"9", "0">>, <<"1", "7", "9", ".", "9">>,
     <<"1", "8", "0">>, <<"2", "7", "0">>, <<"n", "a", "n">>}

InclinometerTexts == {<<>>, <<"-", "9", "0">>, <<"9", "0", ".", "1">>, <<"u", "p">>}

ReadingForms ==
    {[BaseForm EXCEPT !.compass_frontsight = a, !.compass_backsight = b,
                      !.inclinometer_frontsight = c, !.inclinometer_backsight = d] :
        a \in CompassFsTexts, b \in CompassBsTexts, c \in InclinometerTexts,
        d \in {<<>>, <<"-", "9", "1">>, <<"9", "0">>}}

DistanceTexts == {<<>>, <<"-", "0", ".", "1">>, <<"0">>, <<"f", "a", "r">>, <<"n", "a", "n">>}

AzimuthFsTexts ==
    {<<>>, <<"-", "0", ".", "1">>, <<"3", "5", "9", ".", "9">>, <<"3", "6", "0">>,
     <<"n", "a", "n">>}

InclinationFsTexts ==
    {<<>>, <<"-", "9", "0">>, <<"-", "9", "0", ".", "1">>, <<"9", "0">>, <<"9", "0", ".", "1">>}

\* one row, every field varied
ShotForms ==
    {[BaseForm EXCEPT !.from_station = <<fr>>, !.to_station = <<to>>,
                      !.distance = <<d>>, !.azimuth_fs = <<af>>, !.azimuth_bs = <<ab>>,
                      !.inclination_fs = <<if>>, !.inclination_bs = <<ib>>,
                      !.left = <<l>>, !.right = <<r>>, !.up = <<u>>, !.down = <<dn>>] :
        fr \in {tStation20, tStation21}, to \in {tA2Padded, tStation21},
        d \in DistanceTexts, af \in AzimuthFsTexts, ab \in {<<>>, <<"3", "6", "0">>},
        if \in InclinationFsTexts, ib \in {<<>>, <<"9", "1">>},
        l \in {<<>>, <<"-", "0", ".", "1">>}, r \in {<<"0">>, <<"-", "1">>},
        u \in {<<>>, <<"-", "1">>}, dn \in {<<" ">>, <<"-", "1">>}}

\* the kinds of row of MultiRowForms: in range, one violation, three
\* violations, an unparsable number beside a violation, a blank to_station
RowKinds ==
    {[to |-> tA2, distance |-> <<"5">>, azimuth |-> <<"4", "5">>, left |-> <<"1">>],
     [to |-> tA2, distance |-> <<"-", "5">>, azimuth |-> <<"4", "5">>, left |-> <<>>],
     [to |-> tStation21, distance |-> <<"5">>, azimuth |-> <<"3", "6", "0">>,
      left |-> <<"-", "1">>],
     [to |-> tA2, distance |-> <<"-", "5">>, azimuth |-> <<"4", "5", "o">>, left |-> <<>>],
     [to |-> tBlank, distance |-> <<"-", "5">>, azimuth |-> <<"4", "5">>, left |-> <<>>]}

MultiRowForm(rows) ==
    [BaseForm EXCEPT !.from_station = [k \in 1..Len(rows) |-> tA1],
                     !.to_station = [k \in 1..Len(rows) |-> rows[k].to],
                     !.distance = [k \in 1..Len(rows) |-> rows[k].distance],
                     !.azimuth_fs = [k \in 1..Len(rows) |-> rows[k].azimuth],
                     !.left = [k \in 1..Len(rows) |-> rows[k].left]]

MultiRowForms ==
    {MultiRowForm(rows) : rows \in UNION {[1..n -> RowKinds] : n \in 1..MaxRows}}

\* in-range readings as the form carries them
AzimuthTexts == {<<"0">>, <<"4", "5">>, <<"2", "2", "5">>, <<"3", "5", "9", ".", "9">>}
InclinationTexts == {<<"-", "9", "0">>, <<"0">>, <<"9", "0">>}

\* one row with all four readings in range, beside a good or a negative distance
VarianceForms ==
    {[BaseForm EXCEPT !.distance = <<d>>, !.azimuth_fs = <<af>>, !.azimuth_bs = <<ab>>,
                      !.inclination_fs = <<if>>, !.inclination_bs = <<ib>>] :
        d \in {<<"1", "0">>, <<"-", "1">>}, af \in AzimuthTexts, ab \in AzimuthTexts,
        if \in InclinationTexts, ib \in InclinationTexts}

\* one submission, validated
NextValidate ==
    /\ nreq = 0
    /\ \/ \E f \in HeaderForms : SurveySubmit(1, f)
       \/ \E f \in ReadingForms : SurveySubmit(1, f)
       \/ \E f \in ShotForms : SurveySubmit(1, f)
       \/ \E f \in MultiRowForms : SurveySubmit(1, f)
       \/ \E f \in VarianceForms : SurveySubmit(1, f)

SpecValidate == Init /\ [][NextValidate]_vars

(***************************************************************************)
(* shot_to_cartesian.  Distances are in tenths, angles in tenths of a      *)
(* degree and multiples of 30 degrees; sines and cosines are in            *)
(* thousandths, so dz is in units of 10^-4 and dx, dy in units of 10^-7.   *)
(* A distance is a number or NaN; an angle is a number, NaN or infinite.   *)
(***************************************************************************)
\* 1000 * sin of 0, 30, .., 330 degrees
SinTable == <<0, 500, 866, 1000, 866, 500, 0, -500, -866, -1000, -866, -500>>

\* math.sin(math.radians(deg)), deg in tenths of a degree
SinMilli(tenths) == SinTable[((tenths \div 300) % 12) + 1]

\* math.cos(math.radians(deg))
CosMilli(tenths) == SinMilli(tenths + 900)

\* a returned triple
Triple(dx, dy, dz) == [k |-> "value", dx |-> dx, dy |-> dy, dz |-> dz]

\* math.radians(None), or None * a float: TypeError;
\* math.sin or math.cos of an infinite angle: ValueError (math domain error)
Failure(e) == [k |-> e, dx |-> Num(0), dy |-> Num(0), dz |-> Num(0)]

\* math.sin(math.radians(a)) and math.cos(math.radians(a)) of a float that
\* is not infinite: NaN gives NaN
SinF(a) == IF a.k = "nan" THEN NaN ELSE Num(SinMilli(a.v))
CosF(a) == IF a.k = "nan" THEN NaN ELSE Num(CosMilli(a.v))

\* x * y for floats that are not infinite: NaN if either is NaN
FMul(x, y) == IF x.k = "nan" \/ y.k = "nan" THEN NaN ELSE Num(x.v * y.v)

\* the body of shot_to_cartesian with the north component taken from the sine
Cartesian_NorthFromSine(distance, azimuth_deg, inclination_deg) ==
    IF inclination_deg.k = "none" \/ azimuth_deg.k = "none" \/ distance.k = "none"
    THEN Failure("TypeError")
    ELSE IF inclination_deg.k = "inf" \/ azimuth_deg.k = "inf"
    THEN Failure("ValueError")
    ELSE Triple(FMul(FMul(distance, CosF(inclination_deg)), SinF(azimuth_deg)),
                FMul(FMul(distance, CosF(inclination_deg)), SinF(azimuth_deg)),
                FMul(distance, SinF(inclination_deg)))

\* the body of shot_to_cartesian after its guard
Cartesian(distance, azimuth_deg, inclination_deg) ==
    IF inclination_deg.k = "none" \/ azimuth_deg.k = "none" \/ distance.k = "none"
    THEN Failure("TypeError")
    ELSE IF inclination_deg.k = "inf" \/ azimuth_deg.k = "inf"
    THEN Failure("ValueError")
    ELSE Triple(FMul(FMul(distance, CosF(inclination_deg)), SinF(azimuth_deg)),
                FMul(FMul(distance, CosF(inclination_deg)), CosF(azimuth_deg)),
                FMul(distance, SinF(inclination_deg)))

\* shot_to_cartesian with a guard on the distance alone
ShotToCartesian_ChecksDistanceOnly(distance, azimuth_deg, inclination_deg) ==
    IF distance = None THEN Triple(Num(0), Num(0), Num(0))
    ELSE Cartesian(distance, azimuth_deg, inclination_deg)

\* shot_to_cartesian(distance, azimuth_deg, inclination_deg)
ShotToCartesian(distance, azimuth_deg, inclination_deg) ==
    IF distance = None \/ azimuth_deg = None \/ inclination_deg = None
    THEN Triple(Num(0), Num(0), Num(0))
    ELSE Cartesian(distance, azimuth_deg, inclination_deg)

\* the arguments of the calls
Distances == {None, NaN, Num(0), Num(50), Num(105)}
Azimuths == {None, NaN, Inf(1)} \cup {Num(300 * n) : n \in 0..11}
Inclinations == {None, NaN, Inf(-1)} \cup {Num(300 * n) : n \in -3..3}

\* a call about to be made
InitGeometry ==
    /\ db = EmptyTx
    /\ req = [r \in Slots |-> IdleReq]
    /\ nreq = 0
    /\ admin_authenticated = FALSE
    /\ used = 0
    /\ sight = NoSight
    /\ \E d \in Distances, az \in Azimuths, inc \in Inclinations :
          cart = [NoCall EXCEPT !.pc = "call", !.distance = d, !.azimuth_deg = az,
                                !.inclination_deg = inc]

\* the call returns
ShotToCartesianCall ==
    /\ cart.pc = "call"
    /\ cart' = [cart EXCEPT !.pc = "returned",
                            !.result = ShotToCartesian(cart.distance, cart.azimuth_deg,
                                                       cart.inclination_deg)]
    /\ UNCHANGED <<db, req, nreq, admin_authenticated, used, sight>>

NextGeometry == ShotToCartesianCall

SpecGeometry == InitGeometry /\ [][NextGeometry]_vars

(***************************************************************************)
(***************************************************************************)
(* The variances of a shot's frontsight and backsight readings, computed   *)
(* for in-range readings in tenths of a degree.                            *)
(***************************************************************************)
\* in-range azimuth readings: every 15 degrees, and some in between
AzimuthReadings == {150 * n : n \in 0..23} \cup {1, 1799, 2200, 3599}

\* in-range inclination readings
InclinationReadings == {-900, 0, 450}

\* a row with both azimuths and both inclinations read
InitVariance ==
    /\ db = EmptyTx
    /\ req = [r \in Slots |-> IdleReq]
    /\ nreq = 0
    /\ admin_authenticated = FALSE
    /\ used = 0
    /\ cart = NoCall
    /\ \E afs \in AzimuthReadings, abs \in AzimuthReadings,
          ifs \in InclinationReadings, ibs \in InclinationReadings :
          sight = [NoSight EXCEPT !.pc = "readings", !.azimuth_fs = afs, !.azimuth_bs = abs,
                                  !.inclination_fs = ifs, !.inclination_bs = ibs]

\* the two variances of the row are computed
ComputeVariances ==
    /\ sight.pc = "readings"
    /\ sight' = [sight EXCEPT
          !.pc = "computed",
          !.azimuth_variance = AzimuthVariance(sight.azimuth_fs, sight.azimuth_bs),
          !.incline_variance = InclineVariance(sight.inclination_fs, sight.inclination_bs)]
    /\ UNCHANGED <<db, req, nreq, admin_authenticated, used, cart>>

NextVariance == ComputeVariances

SpecVariance == InitVariance /\ [][NextVariance]_vars

(* Submissions on two connections at once.                                 *)
(***************************************************************************)
\* one person in all four roles
FormOnePerson ==
    [BaseForm EXCEPT !.instrument_reader = tAnn, !.point_person = tAnn]

\* a county without a state: the location text is ''
FormCountyOnly == [FormOnePerson EXCEPT !.state = <<>>]

\* neither county nor state: the location text is ''
FormNoLocation == [FormOnePerson EXCEPT !.state = <<>>, !.county = <<>>]

ConcurrentForms == {FormOnePerson, FormCountyOnly, FormNoLocation}

\* slot r has had no request, and every slot before it has
NextSlot(r) == req[r].pc = "idle" /\ \A q \in Slots : q < r => req[q].pc # "idle"

\* two submissions, each on its own connection; the statements of the two
\* interleave in any order
NextConcurrent ==
    \/ \E r \in Slots, f \in ConcurrentForms : NextSlot(r) /\ SurveySubmit(r, f)
    \/ \E r \in Slots : InsertHeader(r)
    \/ \E r \in Slots : SelectCave(r)
    \/ \E r \in Slots : InsertCave(r)
    \/ \E r \in Slots : InsertSurvey(r)
    \/ \E r \in Slots : InsertShot(r)
    \/ \E r \in Slots : SelectPerson(r)
    \/ \E r \in Slots : InsertPerson(r)
    \/ \E r \in Slots : InsertTeam(r)
    \/ \E r \in Slots : Commit(r)
    \/ \E r \in Slots, e \in Raised : ExecuteFails(r, e)

SpecConcurrent == Init /\ [][NextConcurrent]_vars

(***************************************************************************)
(* Submissions until the pool runs out of connections.                     *)
(***************************************************************************)
\* how many submissions a behaviour of SpecPool handles
MaxPoolRequests == 21

PoolForms == {FormOnePerson, FormNoCompassId}

\* submissions one after another, each succeeding, failing or rejected
NextPool ==
    \/ nreq < MaxPoolRequests /\ \E f \in PoolForms : SurveySubmit(1, f)
    \/ InsertHeader(1)
    \/ SelectCave(1)
    \/ InsertCave(1)
    \/ InsertSurvey(1)
    \/ InsertShot(1)
    \/ SelectPerson(1)
    \/ InsertPerson(1)
    \/ InsertTeam(1)
    \/ Commit(1)
    \/ \E e \in Raised : ExecuteFails(1, e)

SpecPool == Init /\ [][NextPool]_vars

(***************************************************************************)
(* The handlers on get_db_connection and the deletion of a survey.  A      *)
(* handler is one step: the connection is taken, the statements run and    *)
(* the response is made before another request begins.                     *)
(* stale: the connection the pool hands out fails its SELECT 1;            *)
(* raises: a statement of the handler raises.                              *)
(***************************************************************************)
\* get_db_connection() with u connections checked out: whether a connection
\* is returned and how many are checked out afterwards.  getconn() raises
\* PoolError when maxconn are out; a stale connection is closed, stays
\* checked out, and a second getconn() follows
GetDbConnection(u, stale) ==
    IF u >= MaxConn THEN [ok |-> FALSE, used |-> u]
    ELSE IF ~stale THEN [ok |-> TRUE, used |-> u + 1]
    ELSE IF u + 1 >= MaxConn THEN [ok |-> FALSE, used |-> u + 1]
    ELSE [ok |-> TRUE, used |-> u + 2]

\* dashboard and health_check: conn = None; try: conn = get_db_connection(),
\* the query, return; except: return_connection(conn, error=True) if conn;
\* finally: return_connection(conn) if conn.  After the except block has put
\* the connection back, the putconn() of the finally block raises PoolError
\* (the connection has no key in the pool any more)
ReadHandler(kind, c, raises) ==
    IF ~c.ok THEN Response(kind, "unavailable", <<>>, 0, c.used)
    ELSE IF ~raises THEN Response(kind, "success", <<>>, 1, c.used - 1)
    ELSE Response(kind, "PoolError", <<>>, 2, c.used - 1)

\* dashboard: SELECT COUNT(*) FROM participants
Dashboard(r, stale, raises) ==
    /\ Handled(r, 0, NoForm, ReadHandler("dashboard", GetDbConnection(used, stale), raises))
    /\ UNCHANGED <<db, admin_authenticated, calls>>

\* health_check: SELECT 1
HealthCheck(r, stale, raises) ==
    /\ Handled(r, 0, NoForm,
               ReadHandler("health_check", GetDbConnection(used, stale), raises))
    /\ UNCHANGED <<db, admin_authenticated, calls>>

\* what a handler under /admin answers without the session flag
RedirectLogin(kind) == Response(kind, "redirect_login", <<>>, 0, used)

\* admin_trip_participants after its guard, with the connection c: no try;
\* 'Trip not found.' returns without return_connection, and so does an
\* exception
TripParticipants(c, found, raises) ==
    IF ~c.ok \/ raises THEN Response("trip_participants", "failed", <<>>, 0, c.used)
    ELSE IF ~found
    THEN Response("trip_participants", "not_found", <<Msg("Trip not found.")>>, 0, c.used)
    ELSE Response("trip_participants", "success", <<>>, 1, c.used - 1)

\* admin_trip_participants(trip_id)
AdminTripParticipants(r, trip_id, stale, raises) ==
    /\ Handled(r, trip_id, NoForm,
               IF ~admin_authenticated THEN RedirectLogin("trip_participants")
               ELSE TripParticipants(GetDbConnection(used, stale),
                                     \E t \in db["trips"] : t.id = trip_id, raises))
    /\ UNCHANGED <<db, admin_authenticated, calls>>

\* the registration form: texts, lists of choices, checkboxes
NoRegistration ==
    [full_name |-> <<>>, email |-> <<>>, phone_number |-> <<>>, address |-> <<>>,
     emergency_contact |-> <<>>, accommodation |-> "", other_accommodation |-> <<>>,
     participation_days |-> {}, skills |-> {}, roppel_trips |-> "",
     crf_compass_agreement |-> FALSE, have_instruments |-> FALSE,
     instruments_details |-> <<>>, group_gear |-> {}, group_gear_other_details |-> <<>>]

\* the checks of register_submit in order: the message each would flash
RegisterChecks(f) ==
    << Violation(~Truthy(Strip(f.full_name)) \/ ~Truthy(Strip(f.email))
                   \/ ~Truthy(Strip(f.phone_number)) \/ ~Truthy(Strip(f.address))
                   \/ ~Truthy(Strip(f.emergency_contact)) \/ f.accommodation = "",
                 "Please fill in all required fields"),
       Violation(f.participation_days = {}, "Please select at least one participation day."),
       Violation(f.skills = {}, "Please select at least one skill or experience level."),
       Violation(f.roppel_trips = "yes" /\ ~f.crf_compass_agreement,
                 "You must agree to use the CRF compass course method"),
       Violation(f.accommodation = "other" /\ ~Truthy(Strip(f.other_accommodation)),
                 "Please specify your accommodation details."),
       Violation(f.have_instruments /\ ~Truthy(Strip(f.instruments_details)),
                 "Please provide details about your survey instruments."),
       Violation("other" \in f.group_gear /\ ~Truthy(Strip(f.group_gear_other_details)),
                 "Please specify what other gear you can share/loan.") >>

\* the participants row of a form, with the columns the handlers here write
ParticipantRow(id, f) ==
    [id |-> id, full_name |-> Strip(f.full_name), email |-> Strip(f.email),
     phone_number |-> Strip(f.phone_number), address |-> Strip(f.address),
     emergency_contact |-> Strip(f.emergency_contact), accommodation |-> f.accommodation]

\* register_submit after its checks passed, with the connection c:
\* SELECT ... WHERE email = %s; a participant with the email: the connection
\* goes back and the registration is refused; else INSERT, commit and the
\* connection goes back.  The except block does not give the connection back.
\* raises covers the statements the driver refuses (.fetchone() on the
\* result of execute(), the ? placeholders of the INSERT)
Register(c, registered, raises) ==
    IF ~c.ok \/ raises
    THEN Response("register", "failed", <<Msg("Registration failed")>>, 0, c.used)
    ELSE IF registered
    THEN Response("register", "rejected", <<Msg("Email is already registered")>>, 1,
                  c.used - 1)
    ELSE Response("register", "success", <<Msg("Successfully registered")>>, 1, c.used - 1)

\* register_submit
RegisterSubmit(r, f, stale, raises) ==
    /\ Handled(r, 0, f,
               IF Failing(RegisterChecks(f)) # <<>>
               THEN Response("register", "rejected", FirstFlash(Failing(RegisterChecks(f))),
                             0, used)
               ELSE Register(GetDbConnection(used, stale),
                             \E p \in db["participants"] : p.email = Strip(f.email), raises))
    /\ db' = IF req'[r].outcome = "success"
             THEN [db EXCEPT !["participants"] =
                      @ \cup {ParticipantRow(NewId("participants", "id"), f)}]
             ELSE db
    /\ UNCHANGED <<admin_authenticated, calls>>

\* a handler that takes the connection c inside try, runs its statements,
\* commits and gives the connection back, and whose except block flashes
\* without giving it back
Write(kind, c, raises, done, failed) ==
    IF ~c.ok \/ raises THEN Response(kind, "failed", <<Msg(failed)>>, 0, c.used)
    ELSE Response(kind, "success", <<Msg(done)>>, 1, c.used - 1)

\* UPDATE participants SET full_name, email, phone_number, address,
\* emergency_contact, accommodation WHERE id = %s
UpdateParticipant(d, participant_id, f) ==
    [d EXCEPT !["participants"] =
       {IF p.id = participant_id THEN ParticipantRow(participant_id, f) ELSE p : p \in @}]

\* admin_update_participant(participant_id)
AdminUpdateParticipant(r, participant_id, f, stale, raises) ==
    /\ Handled(r, participant_id, f,
               IF ~admin_authenticated THEN RedirectLogin("update_participant")
               ELSE Write("update_participant", GetDbConnection(used, stale), raises,
                          "Participant updated successfully.", "Error updating participant"))
    /\ db' = IF req'[r].outcome = "success" THEN UpdateParticipant(db, participant_id, f)
             ELSE db
    /\ UNCHANGED <<admin_authenticated, calls>>

\* admin_delete_participant(participant_id): DELETE FROM participants WHERE id = %s
AdminDeleteParticipant(r, participant_id, stale, raises) ==
    /\ Handled(r, participant_id, NoForm,
               IF ~admin_authenticated THEN RedirectLogin("delete_participant")
               ELSE Write("delete_participant", GetDbConnection(used, stale), raises,
                          "Participant deleted successfully.", "Error deleting participant"))
    /\ db' = IF req'[r].outcome = "success"
             THEN [db EXCEPT !["participants"] = {p \in @ : p.id # participant_id}]
             ELSE db
    /\ UNCHANGED <<admin_authenticated, calls>>

\* the settings whose form value is a checkbox
CheckboxSettings ==
    {"registration_open", "auto_calculate_variance", "require_leader_approval",
     "emergency_contact_required"}

\* new_value of update_settings for the key of a form
NewSettingValue(key, raw) ==
    IF key \in CheckboxSettings
    THEN (IF Truthy(Strip(raw)) THEN <<"t", "r", "u", "e">> ELSE <<"f", "a", "l", "s", "e">>)
    ELSE Strip(raw)

\* UPDATE settings SET value = %s WHERE key = ?, for every key of the table
\* that the form carries
UpdateSettingsRows(d, f) ==
    [d EXCEPT !["settings"] =
       {IF s.key \in DOMAIN f THEN [s EXCEPT !.value = NewSettingValue(s.key, f[s.key])]
        ELSE s : s \in @}]

\* update_settings
UpdateSettings(r, f, stale, raises) ==
    /\ Handled(r, 0, f,
               IF ~admin_authenticated THEN RedirectLogin("update_settings")
               ELSE Write("update_settings", GetDbConnection(used, stale), raises,
                          "Settings updated successfully!", "Error updating settings"))
    /\ db' = IF req'[r].outcome = "success" THEN UpdateSettingsRows(db, f) ELSE db
    /\ UNCHANGED <<admin_authenticated, calls>>

\* the texts of the requests
tShaggy == <<"s", "h", "a", "g", "g", "y", "@", "m", "y", "s", "t", "e", "r", "y", "i", "n", "c", ".", "d", "e", "m", "o">>
tScooby == <<"s", "c", "o", "o", "b", "y", "@", "m", "y", "s", "t", "e", "r", "y", "i", "n", "c", ".", "d", "e", "m", "o">>
tVelma == <<"v", "e", "l", "m", "a", "@", "m", "y", "s", "t", "e", "r", "y", "i", "n", "c", ".", "d", "e", "m", "o">>

\* a database holding rows as populate_dummy_data.py inserts them, of which
\* two participants and one trip are left, and the two settings
DemoDb ==
    [EmptyTx EXCEPT
       !["participants"] =
           {[id |-> 1, full_name |-> <<"S">>, email |-> tShaggy, phone_number |-> <<"5">>,
             address |-> <<"M">>, emergency_contact |-> <<"F">>, accommodation |-> "camping"],
            [id |-> 2, full_name |-> <<"S", "c">>, email |-> tScooby, phone_number |-> <<"5">>,
             address |-> <<"M">>, emergency_contact |-> <<"S">>, accommodation |-> "camping"]},
       !["trips"] = {[id |-> 1, participants |-> <<>>]},
       !["settings"] =
           {[key |-> "demo_mode_disclaimer", value |-> <<"M">>],
            [key |-> "demo_mode_enabled", value |-> <<"t", "r", "u", "e">>]}]

\* a complete registration
BaseRegistration ==
    [NoRegistration EXCEPT
       !.full_name = <<"V">>, !.email = tVelma, !.phone_number = <<"5">>,
       !.address = <<"M">>, !.emergency_contact = <<"D">>, !.accommodation = "camping",
       !.participation_days = {"2025-10-11"}, !.skills = {"navigation"}]

\* registrations: complete, with an email already registered (padded), and
\* failing one check each
RegisterForms ==
    {BaseRegistration,
     [BaseRegistration EXCEPT !.email = <<" ">> \o tShaggy],
     [BaseRegistration EXCEPT !.full_name = <<" ">>],
     [BaseRegistration EXCEPT !.skills = {}],
     [BaseRegistration EXCEPT !.accommodation = "other"],
     [BaseRegistration EXCEPT !.roppel_trips = "yes", !.have_instruments = TRUE]}

\* the forms of the admin's edit of a participant: a new email, and the
\* email of the first participant
ParticipantEdits ==
    {[BaseRegistration EXCEPT !.email = <<"n", "e", "w">>],
     [BaseRegistration EXCEPT !.email = tShaggy]}

\* the forms of update_settings: nothing, a stored key, an unknown key
SettingsForms ==
    {<<>>,
     [k \in {"demo_mode_enabled"} |-> <<" ", "f", "a", "l", "s", "e">>],
     [k \in {"registration_open"} |-> <<"o", "n">>]}

InitHandlers ==
    /\ db = DemoDb
    /\ req = [r \in Slots |-> IdleReq]
    /\ nreq = 0
    /\ admin_authenticated = FALSE
    /\ used = 0
    /\ cart = NoCall
    /\ sight = NoSight

\* requests to the handlers, one after another, in slot 1
NextHandlers ==
    \/ \E p \in Passcodes : AdminLoginSubmit(1, p)
    \/ Free(1) /\ AdminLogout
    \/ nreq < MaxRequests /\ \E stale \in BOOLEAN, raises \in BOOLEAN :
                                 Dashboard(1, stale, raises)
    \/ nreq < MaxRequests /\ \E stale \in BOOLEAN, raises \in BOOLEAN :
                                 HealthCheck(1, stale, raises)
    \/ nreq < MaxRequests /\ \E id \in 1..2, stale \in BOOLEAN, raises \in BOOLEAN :
                                 AdminTripParticipants(1, id, stale, raises)
    \/ nreq < MaxRequests /\ \E f \in RegisterForms, stale \in BOOLEAN, raises \in BOOLEAN :
                                 RegisterSubmit(1, f, stale, raises)
    \/ nreq < MaxRequests /\ \E id \in 1..2, f \in ParticipantEdits, raises \in BOOLEAN :
                                 AdminUpdateParticipant(1, id, f, FALSE, raises)
    \/ nreq < MaxRequests /\ \E id \in 1..2, raises \in BOOLEAN :
                                 AdminDeleteParticipant(1, id, FALSE, raises)
    \/ nreq < MaxRequests /\ \E f \in SettingsForms, raises \in BOOLEAN :
                                 UpdateSettings(1, f, FALSE, raises)
    \/ nreq < MaxRequests /\ \E id \in 1..2, raises \in BOOLEAN :
                                 AdminSurveyDelete(1, id, raises)
    \/ nreq < MaxRequests /\ \E id \in 1..2, f \in EditForms, raises \in BOOLEAN :
                                 AdminSurveyUpdate(1, id, f, raises)

SpecHandlers == InitHandlers /\ [][NextHandlers]_vars

(***************************************************************************)
(* Properties.                                                             *)
(***************************************************************************)

\* the text has a character that is not whitespace
NonBlank(s) == \E i \in 1..Len(s) : s[i] # " "

\* the rows of the form with a non-blank from_station and a non-blank
\* to_station, in submission order
KeptIndices(f) ==
    SelectSeq([i \in 1..Len(f.from_station) |-> i],
              LAMBDA i : /\ NonBlank(f.from_station[i])
                         /\ i <= Len(f.to_station) /\ NonBlank(f.to_station[i]))

\* the submission has a header-level or a shot-level violation
HasViolation(f) ==
    \/ FailedHeaderChecks(f) # <<>>
    \/ ProcessRows(f, Len(f.from_station)).errors # <<>>

\* the rows committed since request r began
NewRows(r, t) == db[t] \ req[r].db0[t]

\* C1: a survey submission with at least one header-level or shot-level
\* violation is rejected and never reaches the database: when it has returned,
\* every table holds the rows it held when the request began.
C1_RejectedWritesNothing ==
    \A r \in Slots :
        (req[r].kind = "submit" /\ HasViolation(req[r].form))
        => /\ req[r].pc = "done"
           /\ req[r].outcome = "rejected"
           /\ req[r].tx = EmptyTx
           /\ db = req[r].db0

\* a submission with a violation was rejected while the tables held rows
C1_Witness ==
    \E r \in Slots :
        /\ req[r].kind = "submit" /\ req[r].pc = "done"
        /\ HasViolation(req[r].form)
        /\ db["survey_header"] # {} /\ db["shots"] # {}

\* the rows a successful submission r has added are its whole write set: one
\* header, one survey linked to a cave that exists, one shot per kept shot, one
\* team row per role linked to a person that exists
CompleteWriteSet(r) ==
    /\ Cardinality(NewRows(r, "survey_header")) = 1
    /\ Cardinality(NewRows(r, "surveys")) = 1
    /\ \A s \in NewRows(r, "surveys") : \E c \in db["caves"] : c.cave_id = s.cave_id
    /\ Cardinality(NewRows(r, "shots")) = Len(req[r].shots)
    /\ Cardinality(NewRows(r, "survey_team")) = Len(TeamRoles(req[r].form))
    /\ \A m \in NewRows(r, "survey_team") : \E p \in db["people"] : p.person_id = m.person_id

\* C2: the writes of one submission are committed all together or not at all:
\* at every step of the handler, and after a failure at any step, the
\* committed tables hold either no row of the submission or its complete write
\* set, the latter exactly when it has succeeded; a failed step is reported.
C2_AllOrNothing ==
    \A r \in Slots :
        req[r].kind = "submit"
        => /\ \A t \in Tables : req[r].db0[t] \subseteq db[t]
           /\ IF req[r].outcome = "success"
              THEN CompleteWriteSet(r)
              ELSE \A t \in Tables : NewRows(r, t) = {}
           /\ req[r].outcome = "failed" => \E e \in Raised : req[r].flashes = <<FailureFlash(e)>>
           /\ (req[r].pc = "done" /\ req[r].outcome # "success") => req[r].flashes # <<>>

\* a submission failed after it had inserted its header, cave, survey, shots
\* and a team row
C2_Witness ==
    \E r \in Slots :
        /\ req[r].kind = "submit" /\ req[r].outcome = "failed"
        /\ req[r].professional_survey_id > 0 /\ req[r].t > 1

\* x is given and lo <= x <= hi (hiOpen: x < hi), in tenths
InRange(x, lo, hi, hiOpen) ==
    x.k = "none" \/ (x.k = "num" /\ x.v >= lo /\ (IF hiOpen THEN x.v < hi ELSE x.v <= hi))

\* x is absent or x >= 0
AbsentOrNonNegative(x) ==
    x.k = "none" \/ (x.k = "num" /\ x.v >= 0) \/ (x.k = "inf" /\ x.v > 0)

\* row i satisfies the per-shot rules of the specification
RowInRange(f, i) ==
    /\ AbsentOrNonNegative(FloatAt(f.distance, i, None))
    /\ InRange(FloatAt(f.azimuth_fs, i, None), 0, 3600, TRUE)
    /\ InRange(FloatAt(f.azimuth_bs, i, None), 0, 3600, TRUE)
    /\ InRange(FloatAt(f.inclination_fs, i, None), -900, 900, FALSE)
    /\ InRange(FloatAt(f.inclination_bs, i, None), -900, 900, FALSE)
    /\ \A fld \in {"left", "right", "up", "down"} :
          AbsentOrNonNegative(FloatAt(f[fld], i, Num(0)))
    /\ Len(Strip(f.from_station[i])) <= MaxStationLen
    /\ Len(Strip(f.to_station[i])) <= MaxStationLen

\* the eleven requirements of the header are met
AllRequiredPresent(f) ==
    /\ \A fld \in RequiredTexts : NonBlank(f[fld])
    /\ f.crf_compass_course # <<>>
    /\ f.data_accuracy # <<>>

\* the calibration readings are absent or in their ranges
ReadingsInRange(f) ==
    /\ LET x == Reading(f.compass_frontsight)
       IN x.k = "none" \/ (x.k = "num" /\ x.v > 1800 /\ x.v <= 3600)
    /\ InRange(Reading(f.compass_backsight), 0, 1800, TRUE)
    /\ InRange(Reading(f.inclinometer_frontsight), -900, 900, FALSE)
    /\ InRange(Reading(f.inclinometer_backsight), -900, 900, FALSE)

\* a valid submission: the header complete, n >= 1 kept shots, all in range
ValidSubmission(f) ==
    /\ AllRequiredPresent(f)
    /\ ReadingsInRange(f)
    /\ Len(KeptIndices(f)) >= 1
    /\ \A k \in 1..Len(KeptIndices(f)) : RowInRange(f, KeptIndices(f)[k])

\* C3: a valid submission with n kept shots is never rejected, and when its
\* handler returns without a database failure it has persisted exactly one
\* survey_header row, one surveys row and n shots rows, and reports success
\* with shot count n.
C3_ValidPersistsOneHeaderNShots ==
    \A r \in Slots :
        (req[r].kind = "submit" /\ ValidSubmission(req[r].form))
        => /\ req[r].outcome # "rejected"
           /\ req[r].pc = "done" => req[r].outcome \in {"success", "failed"}
           /\ req[r].outcome = "success" =>
                /\ Cardinality(NewRows(r, "survey_header")) = 1
                /\ Cardinality(NewRows(r, "surveys")) = 1
                /\ Cardinality(NewRows(r, "shots")) = Len(KeptIndices(req[r].form))
                /\ req[r].flashes = <<[msg |-> "submitted successfully", shot |-> 0,
                                       n |-> Len(KeptIndices(req[r].form))]>>

\* a valid submission with a dropped row has succeeded, after an earlier one
C3_Witness ==
    \E r \in Slots :
        /\ req[r].kind = "submit" /\ req[r].outcome = "success"
        /\ ValidSubmission(req[r].form)
        /\ Len(KeptIndices(req[r].form)) < Len(req[r].form.from_station)
        /\ req[r].db0["survey_header"] # {}

RowMeasurements(row) ==
    <<JStr(row.station_from), JStr(row.station_to), JNum(row.distance),
      JNum(row.fs_azimuth_deg), JNum(row.bs_azimuth_deg), JNum(row.fs_incline_deg),
      JNum(row.bs_incline_deg), JNum(row.lrud_left), JNum(row.lrud_right),
      JNum(row.lrud_up), JNum(row.lrud_down)>>

\* the measurements of an entry of survey_shots_json
JsonMeasurements(e) ==
    <<e.from_station, e.to_station, e.distance, e.azimuth_fs, e.azimuth_bs,
      e.inclination_fs, e.inclination_bs, e.left, e.right, e.up, e.down>>

\* the stations and measurements submitted in row i, as JSON values
SubmittedMeasurements(f, i) ==
    <<JStr(Strip(f.from_station[i])), JStr(Strip(f.to_station[i])),
      JNum(FloatAt(f.distance, i, None)), JNum(FloatAt(f.azimuth_fs, i, None)),
      JNum(FloatAt(f.azimuth_bs, i, None)), JNum(FloatAt(f.inclination_fs, i, None)),
      JNum(FloatAt(f.inclination_bs, i, None)), JNum(FloatAt(f.left, i, Num(0))),
      JNum(FloatAt(f.right, i, Num(0))), JNum(FloatAt(f.up, i, Num(0))),
      JNum(FloatAt(f.down, i, Num(0)))>>

\* C5: after a successful submission the header's shot sequence is the kept
\* rows (both stations non-blank) in submission order, the normalized shots of
\* the new survey are numbered 1..n without gaps, and the k-th normalized shot
\* has the stations and measurements of the k-th entry of the header's
\* sequence.
C5_ShotsInOrder ==
    \A r \in Slots :
        (req[r].kind = "submit" /\ req[r].outcome = "success")
        => LET f == req[r].form
               kept == KeptIndices(f)
               mine == {s \in db["shots"] : s.survey_id = req[r].professional_survey_id}
           IN /\ \E h \in db["survey_header"] :
                    /\ h.id = req[r].survey_id
                    /\ Len(h.survey_shots_json) = Len(kept)
                    /\ \A k \in 1..Len(kept) :
                          /\ JsonMeasurements(h.survey_shots_json[k])
                                = SubmittedMeasurements(f, kept[k])
                          /\ \E s \in mine :
                                /\ s.sequence_in_page = k
                                /\ RowMeasurements(s)
                                      = JsonMeasurements(h.survey_shots_json[k])
              /\ Cardinality(mine) = Len(kept)
              /\ {s.sequence_in_page : s \in mine} = 1..Len(kept)

\* a submission with a dropped first row and two kept shots has succeeded
C5_Witness ==
    \E r \in Slots :
        /\ req[r].kind = "submit" /\ req[r].outcome = "success"
        /\ Len(KeptIndices(req[r].form)) = 2
        /\ KeptIndices(req[r].form)[1] = 2

\* the handler went past its validation with the submission of slot r
Accepted(r) == req[r].kind = "submit" /\ req[r].outcome # "rejected"

\* C6: a submission is accepted only if the nine required texts are non-empty
\* after trimming and both confirmations are set; a submission that misses any
\* of the eleven is rejected.
C6_AcceptedOnlyIfElevenPresent ==
    \A r \in Slots :
        req[r].kind = "submit"
        => /\ Accepted(r) => AllRequiredPresent(req[r].form)
           /\ ~AllRequiredPresent(req[r].form)
                 => (req[r].pc = "done" /\ req[r].outcome = "rejected")

\* a submission that misses the trip leader alone was rejected
C6_Witness ==
    \E r \in Slots :
        /\ req[r].kind = "submit" /\ req[r].outcome = "rejected"
        /\ req[r].form = HeaderMissing({"trip_leader"})

\* the violations of the kept rows of f, as the loop collects them
ShotViolations(f) == ProcessRows(f, Len(f.from_station)).errors

\* message m is among the flashes of slot r
Flashed(r, m) == \E k \in 1..Len(req[r].flashes) : req[r].flashes[k] = m

RECURSIVE ViolationsUpTo(_, _)
ViolationsUpTo(f, i) ==
    IF i = 0 THEN <<>>
    ELSE ViolationsUpTo(f, i - 1)
         \o (IF i <= Len(f.to_station) /\ NonBlank(f.from_station[i])
                /\ NonBlank(f.to_station[i])
             THEN RowErrors(i, RowValues(f, i)) ELSE <<>>)

\* what a rejection for the violations vs reports
ReportOf(vs) ==
    IF Len(vs) > 5
    THEN SubSeq(vs, 1, 5) \o <<MoreMsg(Len(vs) - 5)>>
    ELSE vs

\* C8: for a submission with a valid header the violations of all kept rows
\* are collected in row order; with v > 0 violations the submission is
\* rejected, the first min(5, v) are reported, and one summary with the count
\* v - 5 follows exactly when v > 5.
C8_AllShotViolationsCollected ==
    \A r \in Slots :
        (req[r].kind = "submit" /\ FailedHeaderChecks(req[r].form) = <<>>
           /\ ViolationsUpTo(req[r].form, Len(req[r].form.from_station)) # <<>>)
        => /\ req[r].pc = "done" /\ req[r].outcome = "rejected"
           /\ req[r].flashes
                 = ReportOf(ViolationsUpTo(req[r].form, Len(req[r].form.from_station)))

\* a submission with a valid header and more than five violations, the last
\* of them in its third row, was rejected
C8_Witness ==
    \E r \in Slots :
        /\ req[r].kind = "submit" /\ req[r].outcome = "rejected"
        /\ FailedHeaderChecks(req[r].form) = <<>>
        /\ Len(ShotViolations(req[r].form)) > 5
        /\ ShotViolations(req[r].form)[Len(ShotViolations(req[r].form))].shot = 3

\* C9 (as claimed): a kept shot produces no violation if and only if its
\* distance is absent or >= 0, its azimuths are absent or in [0, 360), its
\* inclinations are absent or in [-90, 90], its LRUD values are >= 0 and both
\* trimmed station names have at most 20 characters.
C9_NoViolationIffInRange ==
    \A r \in Slots :
        req[r].kind = "submit"
        => \A k \in 1..Len(KeptIndices(req[r].form)) :
              (RowErrors(KeptIndices(req[r].form)[k],
                         RowValues(req[r].form, KeptIndices(req[r].form)[k])) = <<>>)
              <=> RowInRange(req[r].form, KeptIndices(req[r].form)[k])

\* raw is a reading that is not given
NotGiven(raw) == ~NonBlank(raw)

\* C10 (as claimed): a given compass frontsight passes exactly when it lies
\* in (180, 360], a given compass backsight exactly when it lies in [0, 180),
\* and a reading that is absent or blank passes.
C10_CompassRangesExact ==
    \A r \in Slots :
        req[r].kind = "submit"
        => /\ (CompassFsError(req[r].form.compass_frontsight) = "")
                 <=> \/ NotGiven(req[r].form.compass_frontsight)
                     \/ /\ ParseFloat(req[r].form.compass_frontsight).k = "num"
                        /\ ParseFloat(req[r].form.compass_frontsight).v > 1800
                        /\ ParseFloat(req[r].form.compass_frontsight).v <= 3600
           /\ (CompassBsError(req[r].form.compass_backsight) = "")
                 <=> \/ NotGiven(req[r].form.compass_backsight)
                     \/ /\ ParseFloat(req[r].form.compass_backsight).k = "num"
                        /\ ParseFloat(req[r].form.compass_backsight).v >= 0
                        /\ ParseFloat(req[r].form.compass_backsight).v < 1800

\* C11: a submission in which no row has both stations non-blank is rejected
\* and writes nothing; a submission that goes on to persist has at least one
\* shot, and every committed survey has at least one shot.
C11_NoEmptySurvey ==
    /\ \A r \in Slots :
          req[r].kind = "submit"
          => /\ KeptIndices(req[r].form) = <<>>
                   => /\ req[r].pc = "done" /\ req[r].outcome = "rejected"
                      /\ req[r].tx = EmptyTx /\ db = req[r].db0
             /\ Accepted(r) => Len(req[r].shots) >= 1
    /\ \A s \in db["surveys"] : \E x \in db["shots"] : x.survey_id = s.survey_id

\* a submission whose rows all miss a station, and whose header is valid, was
\* rejected while the tables held a survey
C11_Witness ==
    \E r \in Slots :
        /\ req[r].kind = "submit" /\ req[r].outcome = "rejected"
        /\ Len(req[r].form.from_station) >= 2
        /\ KeptIndices(req[r].form) = <<>>
        /\ FailedHeaderChecks(req[r].form) = <<>>
        /\ db["surveys"] # {}

\* row i of f is kept and one of its numeric fields does not parse
Unparsable(f, i) ==
    /\ i <= Len(f.to_station) /\ NonBlank(f.from_station[i]) /\ NonBlank(f.to_station[i])
    /\ \E fld \in NumericFields :
          /\ i <= Len(f[fld]) /\ NonBlank(f[fld][i])
          /\ ParseFloat(f[fld][i]).k = "err"

\* C12 (as claimed): when a numeric field of a kept row does not parse, the
\* submission is rejected with the "invalid data format" error and nothing of
\* it is persisted.
C12_InvalidDataFormatReported ==
    \A r \in Slots :
        (req[r].kind = "submit" /\ FailedHeaderChecks(req[r].form) = <<>>
           /\ \E i \in 1..Len(req[r].form.from_station) : Unparsable(req[r].form, i))
        => /\ req[r].pc = "done" /\ req[r].outcome = "rejected"
           /\ req[r].flashes = <<Msg("Invalid data format")>>
           /\ req[r].tx = EmptyTx /\ db = req[r].db0

\* C12 (amended): when a numeric field of a kept row i does not parse, the
\* submission is rejected and nothing of it is persisted; with a valid header
\* the loop goes on over the remaining rows, the violation "Shot i: Invalid
\* numeric value" is collected with the violations of the other rows, and
\* the rejection reports them as any shot-level violations.
C12_UnparsableRejectsWhole ==
    \A r \in Slots :
        req[r].kind = "submit"
        => \A i \in 1..Len(req[r].form.from_station) :
              Unparsable(req[r].form, i)
              => /\ req[r].pc = "done" /\ req[r].outcome = "rejected"
                 /\ req[r].tx = EmptyTx /\ db = req[r].db0
                 /\ FailedHeaderChecks(req[r].form) = <<>>
                       => /\ \E j \in 1..Len(ShotViolations(req[r].form)) :
                                ShotViolations(req[r].form)[j]
                                   = ShotMsg(i, "Invalid numeric value")
                          /\ req[r].flashes
                                = ReportOf(ViolationsUpTo(req[r].form,
                                                          Len(req[r].form.from_station)))

\* a submission with a row that parses before a row that does not was
\* rejected while the tables held a survey
C12_Witness ==
    \E r \in Slots :
        /\ req[r].kind = "submit" /\ req[r].outcome = "rejected"
        /\ FailedHeaderChecks(req[r].form) = <<>>
        /\ Unparsable(req[r].form, 3) /\ ~Unparsable(req[r].form, 2)
        /\ KeptIndices(req[r].form) = <<2, 3>>
        /\ db["shots"] # {}

\* the caves rows of d that the submission f names
CavesNamed(d, f) ==
    {c \in d["caves"] : /\ c.name = Strip(f.cave_name)
                        /\ c.location_text = CaveLocation(Strip(f.county), Strip(f.state))}

\* C13: with submissions handled one after another the caves table holds at
\* most one row per (name, location) pair, and a successful submission that
\* names a cave already there resolves to that row and creates none.
C13_OneCavePerNameAndLocation ==
    /\ \A c1, c2 \in db["caves"] :
          (c1.name = c2.name /\ c1.location_text = c2.location_text) => c1 = c2
    /\ \A r \in Slots :
          (req[r].kind = "submit" /\ req[r].outcome = "success")
          => /\ Cardinality(CavesNamed(db, req[r].form)) = 1
             /\ \A c \in CavesNamed(db, req[r].form) : c.cave_id = req[r].cave_id
             /\ CavesNamed(req[r].db0, req[r].form) # {} => NewRows(r, "caves") = {}

\* a second submission of a cave has succeeded and resolved to the row of the
\* first
C13_Witness ==
    \E r \in Slots :
        /\ req[r].kind = "submit" /\ req[r].outcome = "success"
        /\ CavesNamed(req[r].db0, req[r].form) # {}
        /\ Cardinality(db["surveys"]) = 2
        /\ \A s \in db["surveys"] : s.cave_id = req[r].cave_id

\* requests r1 and r2 are submissions that succeeded, r1 before r2 began
OneAfterTheOther(r1, r2) ==
    /\ r1 # r2
    /\ req[r1].kind = "submit" /\ req[r1].outcome = "success"
    /\ req[r2].kind = "submit" /\ req[r2].outcome = "success"
    /\ \E h \in req[r2].db0["survey_header"] : h.id = req[r1].survey_id

\* C14 (as claimed): two successful submissions, one after the other,
\* resolve to the same Cave row if and only if they have the same cave name,
\* the same county and the same state.
C14_SameCaveIffSameNameCountyState ==
    \A r1, r2 \in Slots :
        OneAfterTheOther(r1, r2)
        => ((req[r1].cave_id = req[r2].cave_id)
            <=> /\ Strip(req[r1].form.cave_name) = Strip(req[r2].form.cave_name)
                /\ Strip(req[r1].form.county) = Strip(req[r2].form.county)
                /\ Strip(req[r1].form.state) = Strip(req[r2].form.state))

\* rows x and y of table t have the key the lookup goes by
SameKey(t, x, y) ==
    IF t = "caves" THEN x.name = y.name /\ x.location_text = y.location_text
    ELSE x.full_name = y.full_name

\* table t of d holds two rows with one key
Duplicates(d, t) == \E x, y \in d[t] : x # y /\ SameKey(t, x, y)

\* C15: two caves rows with one (name, location), or two people rows with one
\* full name, come to be committed only by the race: the commit of a
\* submission that missed its lookup and inserted, while the row it missed
\* was committed by another submission after it had begun.
C15_DuplicatesByConcurrentMiss ==
    [][\A t \in {"caves", "people"} :
          (Duplicates(db', t) /\ ~Duplicates(db, t))
          => \E r \in Slots :
                /\ req[r].pc = "commit" /\ req'[r].outcome = "success"
                /\ \E x \in req[r].tx[t], y \in db[t] \ req[r].db0[t] : SameKey(t, x, y)]_vars

\* both submissions missed both lookups: two caves rows with one name and
\* location and two people rows with one full name are committed
C15_Witness ==
    /\ Duplicates(db, "caves") /\ Duplicates(db, "people")
    /\ \A r \in Slots : req[r].kind = "submit" /\ req[r].outcome = "success"

\* the role tags of survey_team and the form field each is filled from
RoleFields ==
    {<<"sketch_book", "book_sketch_person">>, <<"foresight", "instrument_reader">>,
     <<"backsight", "tape_person">>, <<"other", "point_person">>}

\* the survey_team rows of the normalized survey of request r
TeamOf(r) == {m \in db["survey_team"] : m.survey_id = req[r].professional_survey_id}

\* C16: a successful submission has exactly one survey_team row for each of
\* its team roles, displaying the submitted name and linked to the one people
\* row whose full_name equals that name exactly; a people row is created only
\* for a name that had none, so the table holds one row per full name.
C16_OneTeamRowPerRoleOnePersonPerName ==
    /\ \A p1, p2 \in db["people"] : p1.full_name = p2.full_name => p1 = p2
    /\ \A r \in Slots :
          (req[r].kind = "submit" /\ req[r].outcome = "success")
          => /\ Cardinality(TeamOf(r)) = Cardinality(RoleFields)
             /\ \A rf \in RoleFields :
                   \E m \in TeamOf(r) :
                      /\ m.role = rf[1]
                      /\ m.display_name = Strip(req[r].form[rf[2]])
                      /\ \E p \in db["people"] :
                            p.person_id = m.person_id /\ p.full_name = m.display_name
             /\ \A p \in NewRows(r, "people") :
                   \A q \in req[r].db0["people"] : q.full_name # p.full_name

\* after a submission in which one name fills two roles, a second one has
\* succeeded whose names were people already, but for one that differs from
\* a person's name in case only
C16_Witness ==
    \E r \in Slots :
        /\ req[r].kind = "submit" /\ req[r].outcome = "success"
        /\ req[r].form = FormLowerCase
        /\ Cardinality(NewRows(r, "people")) = 1
        /\ Cardinality(db["people"]) = 4
        /\ Cardinality({m.person_id : m \in TeamOf(r)}) = 4

\* request r is an admin edit that succeeded on a survey header that was there
EditedExisting(r) ==
    /\ req[r].kind = "edit" /\ req[r].outcome = "success"
    /\ \E h \in req[r].db0["survey_header"] : h.id = req[r].target

\* the rows of the edit f with a non-blank from_station, in submitted order
EditKeptIndices(f) ==
    SelectSeq([i \in 1..Len(f.from_station) |-> i], LAMBDA i : NonBlank(f.from_station[i]))

\* the text of field fld in row i of f, '' where the list is shorter
Submitted(f, fld, i) == IF i <= Len(f[fld]) THEN f[fld][i] ELSE <<>>

C19_ConnectionAlwaysAvailable ==
    \A r \in Slots : Free(r) => PoolHasConnection

\* C20: shot_to_cartesian returns (0, 0, 0) whenever at least one of
\* distance, azimuth and inclination is absent, whatever the other two are,
\* and does not fail.
C20_AbsentInputGivesZero ==
    (cart.pc = "returned"
       /\ (cart.distance.k = "none" \/ cart.azimuth_deg.k = "none"
             \/ cart.inclination_deg.k = "none"))
    => cart.result = [k |-> "value", dx |-> Num(0), dy |-> Num(0), dz |-> Num(0)]

\* the call with a distance and an inclination but no azimuth has returned
C20_Witness ==
    /\ cart.pc = "returned"
    /\ cart.distance = Num(105) /\ cart.azimuth_deg = None /\ cart.inclination_deg = Num(300)
    /\ cart.result.k = "value"

\* the call was made with three floats, none of them None
PresentInputs ==
    cart.distance.k # "none" /\ cart.azimuth_deg.k # "none" /\ cart.inclination_deg.k # "none"

\* the call was made with three finite numbers
FiniteInputs ==
    cart.distance.k = "num" /\ cart.azimuth_deg.k = "num" /\ cart.inclination_deg.k = "num"

\* the returned triple (east, north, up) has up = distance * sin(inclination)
\* and east^2 + north^2 = h^2 for the horizontal distance
\* h = distance * cos(inclination), to a relative tolerance of 10^-4:
\* east / h and north / h are in thousandths
IdentityHolds(res, distance, h) ==
    /\ res.k = "value"
    /\ res.dx.k = "num" /\ res.dy.k = "num" /\ res.dz.k = "num"
    /\ res.dz.v = distance.v * SinMilli(cart.inclination_deg.v)
    /\ IF h = 0 THEN res.dx.v = 0 /\ res.dy.v = 0
       ELSE /\ (res.dx.v \div h) * (res.dx.v \div h) + (res.dy.v \div h) * (res.dy.v \div h)
                 >= 1000000 - 100
            /\ (res.dx.v \div h) * (res.dx.v \div h) + (res.dy.v \div h) * (res.dy.v \div h)
                 <= 1000000 + 100

\* C21 as stated: for all present inputs shot_to_cartesian returns
\* (east, north, up) with up = distance * sin(inclination) and
\* east^2 + north^2 = (distance * cos(inclination))^2, angles in degrees,
\* within tolerance.
C21_IdentityForPresentInputs ==
    (cart.pc = "returned" /\ PresentInputs)
    => IdentityHolds(cart.result, cart.distance,
                     cart.distance.v * CosMilli(cart.inclination_deg.v))

\* C21: for all present and finite inputs shot_to_cartesian returns
\* (east, north, up) with up = distance * sin(inclination) and
\* east^2 + north^2 = (distance * cos(inclination))^2, angles in degrees,
\* within tolerance; a NaN input gives NaN components and an infinite angle
\* raises ValueError.
C21_IdentityForFiniteInputs ==
    /\ (cart.pc = "returned" /\ FiniteInputs)
       => IdentityHolds(cart.result, cart.distance,
                        cart.distance.v * CosMilli(cart.inclination_deg.v))
    /\ (cart.pc = "returned" /\ PresentInputs /\ ~FiniteInputs)
       => \/ cart.result.k = "ValueError"
          \/ cart.result.k = "value" /\ "nan" \in {cart.result.dx.k, cart.result.dz.k}

\* a slanted shot to the south-east has been reduced
C21_Witness ==
    /\ cart.pc = "returned"
    /\ cart.distance = Num(105) /\ cart.azimuth_deg = Num(1200)
    /\ cart.inclination_deg = Num(-300)
    /\ cart.result = [k |-> "value", dx |-> Num(105 * 866 * 866),
                      dy |-> Num(105 * 866 * (-500)), dz |-> Num(105 * (-500))]

\* the circular angular distance of two azimuths in [0, 360), in tenths
CircularDistance(a, b) == IF Abs(a - b) <= 3600 - Abs(a - b) THEN Abs(a - b) ELSE 3600 - Abs(a - b)

\* C22: for in-range azimuth_fs and azimuth_bs the azimuth variance of the
\* submission pipeline equals 180 minus the circular angular distance of the
\* two readings; it is symmetric, lies in [0, 180], is 0 exactly when the
\* readings differ by 180 degrees (45 and 225 give 0), and is 5 for 45 and 220.
C22_VarianceIsDistanceFromOpposite ==
    sight.pc = "computed"
    => /\ sight.azimuth_variance = 1800 - CircularDistance(sight.azimuth_fs, sight.azimuth_bs)
       /\ sight.azimuth_variance = AzimuthVariance(sight.azimuth_bs, sight.azimuth_fs)
       /\ sight.azimuth_variance >= 0 /\ sight.azimuth_variance <= 1800
       /\ sight.azimuth_variance = 0 <=> Abs(sight.azimuth_fs - sight.azimuth_bs) = 1800
       /\ (sight.azimuth_fs = 450 /\ sight.azimuth_bs = 2250) => sight.azimuth_variance = 0
       /\ (sight.azimuth_fs = 450 /\ sight.azimuth_bs = 2200) => sight.azimuth_variance = 50

\* the variance of the readings 45 and 220 has been computed, and is 5 degrees
C22_Witness ==
    /\ sight.pc = "computed"
    /\ sight.azimuth_fs = 450 /\ sight.azimuth_bs = 2200
    /\ sight.azimuth_variance = 50

\* the four readings of row i of f are numbers within their ranges
ReadingsInRangeAt(f, i) ==
    /\ i <= Len(f.azimuth_fs) /\ i <= Len(f.azimuth_bs)
    /\ i <= Len(f.inclination_fs) /\ i <= Len(f.inclination_bs)
    /\ \A fld \in {"azimuth_fs", "azimuth_bs"} :
          /\ ParseFloat(f[fld][i]).k = "num"
          /\ ParseFloat(f[fld][i]).v >= 0 /\ ParseFloat(f[fld][i]).v < 3600
    /\ \A fld \in {"inclination_fs", "inclination_bs"} :
          /\ ParseFloat(f[fld][i]).k = "num"
          /\ ParseFloat(f[fld][i]).v >= -900 /\ ParseFloat(f[fld][i]).v <= 900

\* f with the four readings of row i replaced
WithReadings(f, i, af, ab, if, ib) ==
    [f EXCEPT !.azimuth_fs[i] = af, !.azimuth_bs[i] = ab,
              !.inclination_fs[i] = if, !.inclination_bs[i] = ib]

\* the variances of the readings as texts, in tenths of a degree
TextAzimuthVariance(af, ab) == AzimuthVariance(ParseFloat(af).v, ParseFloat(ab).v)
TextInclineVariance(if, ib) == InclineVariance(ParseFloat(if).v, ParseFloat(ib).v)

\* C23: the frontsight/backsight variances never affect acceptance: replacing
\* the in-range azimuth and inclination readings of a shot by other in-range
\* readings, of whatever variance, changes neither whether the submission is
\* accepted nor the violations reported.
C23_VarianceNeverEnforced ==
    \A r \in Slots :
        (req[r].kind = "submit" /\ req[r].outcome # "failed"
           /\ ReadingsInRangeAt(req[r].form, 1))
        => \A af \in AzimuthTexts, ab \in AzimuthTexts,
              if \in InclinationTexts, ib \in InclinationTexts :
              /\ ValidateSubmission(WithReadings(req[r].form, 1, af, ab, if, ib)).ok
                   = Accepted(r)
              /\ ValidateSubmission(WithReadings(req[r].form, 1, af, ab, if, ib)).flashes
                   = req[r].flashes

\* a submission whose only shot has an azimuth variance of 180 degrees and an
\* inclination variance of 180 degrees was accepted
C23_Witness ==
    \E r \in Slots :
        /\ Accepted(r) /\ req[r].pc = "insert_header"
        /\ ReadingsInRangeAt(req[r].form, 1)
        /\ TextAzimuthVariance(req[r].form.azimuth_fs[1], req[r].form.azimuth_bs[1]) = 1800
        /\ TextInclineVariance(req[r].form.inclination_fs[1],
                               req[r].form.inclination_bs[1]) = 1800

\* the positions in the collected violations vs that are about row i
ViolationsOfRow(vs, i) == {j \in 1..Len(vs) : vs[j].shot = i}

\* C24: a kept row with an unparsable numeric field contributes exactly one
\* violation, the invalid-numeric-value error with the row's 1-based position,
\* and no range or station-length violation, whatever its other fields are;
\* it is not appended to the shot list and does not count as a valid shot.
C24_UnparsableRowOneViolation ==
    \A r \in Slots :
        req[r].kind = "submit"
        => /\ \A i \in 1..Len(req[r].form.from_station) :
                 Unparsable(req[r].form, i)
                 => /\ Cardinality(ViolationsOfRow(ShotViolations(req[r].form), i)) = 1
                    /\ \A j \in ViolationsOfRow(ShotViolations(req[r].form), i) :
                          ShotViolations(req[r].form)[j] = ShotMsg(i, "Invalid numeric value")
                    /\ ProcessRows(req[r].form, i).shots
                          = ProcessRows(req[r].form, i - 1).shots
           /\ Len(ProcessRows(req[r].form, Len(req[r].form.from_station)).shots)
                 = Cardinality({i \in 1..Len(req[r].form.from_station) :
                                   /\ i <= Len(req[r].form.to_station)
                                   /\ NonBlank(req[r].form.from_station[i])
                                   /\ NonBlank(req[r].form.to_station[i])
                                   /\ ~Unparsable(req[r].form, i)})

\* a submission whose only row has a station name of 21 characters, a
\* negative LRUD value and a distance that does not parse was rejected with
\* the one violation
C24_Witness ==
    \E r \in Slots :
        /\ req[r].kind = "submit" /\ req[r].outcome = "rejected"
        /\ req[r].form.from_station = <<tStation21>>
        /\ req[r].form.distance = << <<"f", "a", "r">> >>
        /\ req[r].form.right = << <<"-", "1">> >>
        /\ req[r].flashes = <<ShotMsg(1, "Invalid numeric value")>>

\* C25: every connection a request takes from the pool is given back on every
\* path of its handler, so that between requests no connection is checked out
C25_EveryConnectionGivenBack == (\A r \in Slots : Free(r)) => used = 0

\* C26: a handler calls return_connection at most once for the connection it
\* took
C26_ReturnedAtMostOnce == \A r \in Slots : req[r].puts <= 1

\* the number a stored JSON value stands for: a text is read as float() reads
\* it, a blank or absent one is no reading
JFloat(j) ==
    IF j.k = "str" THEN (IF Truthy(Strip(j.s)) THEN ParseFloat(j.s) ELSE None)
    ELSE [k |-> j.k, v |-> j.v]

\* a stored shot passes the per-shot rules of survey_submit
StoredShotPasses(s) ==
    /\ NonBlank(s.from_station.s) /\ Len(Strip(s.from_station.s)) <= MaxStationLen
    /\ NonBlank(s.to_station.s) /\ Len(Strip(s.to_station.s)) <= MaxStationLen
    /\ AbsentOrNonNegative(JFloat(s.distance))
    /\ InRange(JFloat(s.azimuth_fs), 0, 3600, TRUE)
    /\ InRange(JFloat(s.azimuth_bs), 0, 3600, TRUE)
    /\ InRange(JFloat(s.inclination_fs), -900, 900, FALSE)
    /\ InRange(JFloat(s.inclination_bs), -900, 900, FALSE)

\* a stored header has its required fields and both confirmations, and every
\* shot of it passes
StoredHeaderPasses(h) ==
    /\ NonBlank(h.cave_name) /\ NonBlank(h.survey_date)
    /\ NonBlank(h.book_sketch_person) /\ NonBlank(h.instrument_reader)
    /\ NonBlank(h.tape_person) /\ NonBlank(h.point_person)
    /\ NonBlank(h.trip_leader)
    /\ NonBlank(h.compass_id) /\ NonBlank(h.inclinometer_id)
    /\ h.crf_compass_course = 1 /\ h.data_accuracy = 1
    /\ \A k \in 1..Len(h.survey_shots_json) : StoredShotPasses(h.survey_shots_json[k])

SubmittedHeadersSatisfyRules ==
    \A h \in db["survey_header"] : h.compass_frontsight.k # "str" => StoredHeaderPasses(h)

\* the kinds of the requests to handlers under /admin
AdminKinds ==
    {"edit", "survey_delete", "trip_participants", "update_participant",
     "delete_participant", "update_settings"}

C29_EmailsUnique ==
    \A p, q \in db["participants"] : p.email = q.email => p.id = q.id

====
